---- MODULE Spec2Model ----
(***************************************************************************)
(* A model of the APEX trading bot's transport layer (src/api/client.py:   *)
(* RateLimiter and KalshiClient._request, with src/api/auth.py) and of its *)
(* risk manager (src/risk/manager.py).                                     *)
(*                                                                         *)
(* Time.  One second is TicksPerSecond ticks.  A bucket's token count is   *)
(* kept in units of 1/TicksPerSecond token, so that the refill             *)
(* elapsed * max_per_second and the wait (1 - tokens) / max_per_second are *)
(* exact integers (the source uses floats; rounding is not modelled).      *)
(* elapsed[b] is time.monotonic() - last_refill of bucket b, saturated at  *)
(* one second: one second of refill fills any bucket, so a longer gap      *)
(* gives the same token count.                                             *)
(***************************************************************************)
EXTENDS Integers, Sequences, FiniteSets, TLC

\* ---------------------------------------------------------------- bounds
\* Stand-ins for the configured rates (read_rate, write_rate).
ReadRate == 2
WriteRate == 1
\* How many top-level calls (acquire or _request) a behaviour makes.
MaxCalls == 3
\* time.sleep may return late by up to this many ticks.
MaxOversleep == 1
\* How many record_trade calls a behaviour makes.
MaxTrades == 3
\* The last UTC day a behaviour reaches, counting from day 0.
MaxDay == 2

\* How many iterations of the main loop a behaviour makes.
MaxCycles == 2
\* The cursors the server hands out are 1..MaxCursor.
MaxCursor == 2
\* How many pages a fetch-all call requests (a server whose cursors go round
\* in a circle never ends the call).
MaxRequests == 4
\* How many threads call acquire on the same bucket.
NThreads == 2
\* settings.scan_interval, in seconds: the length of the inter-cycle sleep.
ScanInterval == 2

TicksPerSecond == 2 * ReadRate * WriteRate
\* One token, in token units.
Token == TicksPerSecond

Min(a, b) == IF a <= b THEN a ELSE b

VARIABLES
    \* RateLimiter instances (KalshiClient._read_limiter, _write_limiter)
    tokens,        \* [Buckets -> token units]
    elapsed,       \* [Buckets -> ticks since last_refill, saturated]
    \* control
    pc,            \* where the single thread is
    caller,        \* "direct" (acquire called on its own) or "_request"
    cur,           \* the bucket acquire is running on
    sleep_time,    \* the argument of the pending time.sleep, in ticks
    \* observation of the limiter
    slept,         \* the sleeps requested by the current acquire call
    polls,         \* iterations of the current acquire call's loop
    acquired,      \* [Buckets -> acquire calls that returned]
    quiet,         \* [Buckets -> no time elapsed yet outside acquire(b)]
    calls,         \* top-level calls made so far
    \* KalshiClient
    private_key,   \* whether __init__ loaded a private key
    \* one _request call
    method,
    authenticated,
    clock,         \* ticks of wall time since the call was entered
    headers,       \* the local `headers`
    nsigned,       \* sign_request invocations of this call
    attempt,       \* the loop variable
    last_exception,
    sent,          \* the HTTP attempts of this call: headers, outcome
    result,        \* what the call returned or raised
    \* RiskManager
    today,         \* the UTC date, as a day number (what _today() returns)
    daily_pnl,     \* self._daily_pnl
    open_positions,\* self._open_positions: ticker -> exposure in dollars
    trades_today,  \* len(self._trades_today); the list is never read
    recorded,      \* record_trade calls made so far
    lastOp,        \* the last RiskManager call: arguments, rollover, result
    \* the arguments of the sizing call a behaviour is about
    args,
    \* observation of the ledger
    day_log,       \* the record_trade calls made since the ledger was rolled
    seq_base,      \* open_positions at the last rollover or update_position
    seq_from,      \* len(day_log) at the last rollover or update_position
    \* main.py: main
    config,        \* args.scan_only, args.once and settings.dry_run
    running,       \* the global _running
    mpc,           \* where main and run_trading_cycle are
    cycle,         \* the local `cycle` of main
    sleep_left,    \* seconds the inter-cycle sleep still has to run
    \* main.py: run_trading_cycle
    scan_only,     \* the parameter, which the cycle may set
    cycle_balance, \* the local `balance`
    strat,         \* index of the strategy the loop of step 3 is at
    all_signals,
    sig_i,         \* index of the signal the loop of steps 4 and 5 is at
    trades_executed,
    cycle_result,  \* what the last run_trading_cycle call returned or raised
    \* observation of the cycle
    cycle_log,     \* the calls the current cycle made, in order
    paused_before,  \* an earlier cycle found trading paused
    \* KalshiClient.get_all_markets_for_series, get_all_positions
    pages,  \* what the server answers to a request with a given cursor
    fa_pc,  \* where the fetch-all call is
    fa_op,  \* the fetch-all operation called
    cursor,  \* the local `cursor`
    all_items,  \* the local all_markets or all_positions
    sent_cursors,  \* the cursor of each page request made, in order
    \* threads that share one RateLimiter
    t_pc,  \* [Threads -> where the thread is in acquire]
    t_el,  \* [Threads -> the local `elapsed`, in ticks]
    t_sleep,  \* [Threads -> what is left of the thread's time.sleep, in ticks]
    \* KalshiClient.create_order
    the_order,  \* the OrderRequest object the caller passes to create_order
    json_body,  \* the json_body argument of the _request call
    issued  \* uuid.uuid4() calls made so far

reqVars == <<method, authenticated, clock, headers, nsigned, attempt,
             last_exception, sent, result>>
fetchVars == <<pages, fa_pc, fa_op, cursor, all_items, sent_cursors>>
\* What the behaviours of the other components leave as Init set it: the
\* arguments of the sizing call and the fetch-all call, and the threads of
\* a caller that shares a RateLimiter.
threadVars == <<t_pc, t_el, t_sleep>>
orderVars == <<the_order, json_body, issued>>
inputVars == <<args, fetchVars, threadVars, orderVars>>
logVars == <<day_log, seq_base, seq_from>>
riskVars == <<today, daily_pnl, open_positions, trades_today, recorded, lastOp>>
cycleVars == <<config, running, mpc, cycle, sleep_left, scan_only,
               cycle_balance,
               strat, all_signals, sig_i, trades_executed, cycle_result,
               cycle_log, paused_before>>
nonClientVars == <<riskVars, inputVars, logVars, cycleVars>>
clientVars == <<tokens, elapsed, pc, caller, cur, sleep_time, slept, polls,
                acquired, quiet, calls, private_key, method, authenticated,
                clock, headers, nsigned, attempt, last_exception, sent, result>>
vars == <<tokens, elapsed, pc, caller, cur, sleep_time, slept, polls,
          acquired, quiet, calls, private_key, method, authenticated, clock,
          headers, nsigned, attempt, last_exception, sent, result,
          today, daily_pnl, open_positions, trades_today, recorded, lastOp,
          args, day_log, seq_base, seq_from,
          config, running, mpc, cycle, sleep_left, scan_only, cycle_balance,
          strat,
          all_signals, sig_i, trades_executed, cycle_result, cycle_log,
          paused_before,
          pages, fa_pc, fa_op, cursor, all_items, sent_cursors,
          t_pc, t_el, t_sleep,
          the_order, json_body, issued>>

Buckets == {"read", "write"}

\* The threads of a caller that shares one RateLimiter among several.
Threads == 1..NThreads

\* RateLimiter.__init__: max_per_second
max_per_second(b) == IF b = "read" THEN ReadRate ELSE WriteRate

\* The capacity of a bucket, in token units.
Capacity(b) == max_per_second(b) * Token

\* A refill that forgets the cap.
Refill_Uncapped(b, tok, el) == tok + el * max_per_second(b)

\* acquire, line 44: min(max_per_second, tokens + elapsed * max_per_second)
Refill(b, tok, el) == Min(Capacity(b), tok + el * max_per_second(b))

\* A strict test: exactly one token is not enough.
HasToken_Strict(tok) == tok > Token

\* acquire, line 47: the test that lets the caller take a token
HasToken(tok) == tok >= Token

\* A wait half as long as the next token needs.
SleepTime_Half(b, tok) == (Token - tok) \div (2 * max_per_second(b))

\* acquire, line 50: (1 - tokens) / max_per_second, in ticks
SleepTime(b, tok) == (Token - tok) \div max_per_second(b)

\* Time passes: every bucket's elapsed grows by d ticks.
Advance(el, d) == [b \in Buckets |-> Min(TicksPerSecond, el[b] + d)]

\* The buckets other than `own` have seen time pass.
Disturb(q, own, d) == [b \in Buckets |-> q[b] /\ (b \in own \/ d = 0)]

\* One time.sleep call, as the sleep log keeps it.
Sleep(who, d) == [by |-> who, ticks |-> d]

\* ------------------------------------------------------------ transport
\* KalshiClient.__init__: self._max_retries
max_retries == 3

\* KalshiClient.__init__: self._base_backoff, 0.5 seconds, in ticks
base_backoff == TicksPerSecond \div 2

Methods == {"GET", "POST"}
Path == "/portfolio/balance"
Payloads == {"p1", "p2"}
Errors == {"ConnectionError", "Timeout"}

\* What session.request can do: return a response or raise.
Outcomes ==
    [kind : {"response"}, status : {200}, body : Payloads]
    \cup [kind : {"response"}, status : {204, 429, 400, 500}, body : {""}]
    \cup [kind : Errors, status : {-1}, body : {""}]

\* A classification that takes POST for a read.
IsWrite_PostIsRead(m) == m \in {"PUT", "DELETE", "PATCH"}

\* _request, line 115
IsWrite(m) == m \in {"POST", "PUT", "DELETE", "PATCH"}

\* get_auth_headers, line 75: str(int(time.time() * 1000))
TimestampMs(c) == (c * 1000) \div TicksPerSecond

\* sign_request: an RSA-PSS signature of timestamp + method + path, with
\* a salt that is fresh on every call.
SignRequest(ts, m, path, salt) == <<ts, m, path, salt>>

\* get_auth_headers
GetAuthHeaders(m, path, c, salt) ==
    [auth |-> TRUE, timestamp |-> TimestampMs(c),
     signature |-> SignRequest(TimestampMs(c), m, path, salt)]

\* _request, line 129: Content-Type only
PlainHeaders == [auth |-> FALSE, timestamp |-> -1, signature |-> <<>>]

NoResult == [kind |-> "none", status_code |-> -1, body |-> ""]

\* A loop that also retries server errors.
Disposition_Retry5xx(o) ==
    IF o.kind \in Errors THEN "retry"
    ELSE IF o.status = 429 \/ o.status >= 500 THEN "retry"
    ELSE IF o.status >= 400 THEN "raise"
    ELSE "return"

\* _request, lines 144-172: what the loop does with one attempt's outcome
Disposition(o) ==
    IF o.kind \in Errors THEN "retry"
    ELSE IF o.status = 429 THEN "retry"
    ELSE IF o.status >= 400 THEN "raise"
    ELSE "return"

\* _request, lines 157-166: the value returned or the error raised
Outcome(o) ==
    IF o.status >= 400
    THEN [kind |-> "KalshiAPIError", status_code |-> o.status, body |-> o.body]
    ELSE IF o.status = 204
    THEN [kind |-> "value", status_code |-> o.status, body |-> "{}"]
    ELSE [kind |-> "value", status_code |-> o.status, body |-> o.body]

\* A backoff that does not grow.
Backoff_Fixed(n) == base_backoff

\* _request, lines 146 and 170: base_backoff * 2 ** attempt
Backoff(n) == base_backoff * 2 ^ n

\* A loop that runs one attempt too many.
LoopContinues_OffByOne(n) == n + 1 <= max_retries

\* _request, line 133: the loop goes on to another attempt
LoopContinues(n) == n + 1 < max_retries

\* An exhaustion that forgets the captured error.
Exhausted_Synthetic(exc) ==
    [kind |-> "KalshiAPIError", status_code |-> 0,
     body |-> "Max retries exceeded"]

\* _request, line 174: raise last_exception or KalshiAPIError(0, ...)
Exhausted(exc) ==
    IF exc # "None"
    THEN [kind |-> exc, status_code |-> -1, body |-> ""]
    ELSE [kind |-> "KalshiAPIError", status_code |-> 0,
          body |-> "Max retries exceeded"]

\* A direct call of RateLimiter.acquire on bucket b.
Acquire(b) ==
    /\ UNCHANGED nonClientVars
    /\ pc = "idle"
    /\ calls < MaxCalls
    /\ calls' = calls + 1
    /\ pc' = "acquire"
    /\ caller' = "direct"
    /\ cur' = b
    /\ slept' = <<>>
    /\ polls' = 0
    /\ UNCHANGED <<tokens, elapsed, sleep_time, acquired, quiet, private_key>>
    /\ UNCHANGED reqVars

\* One iteration of acquire's loop, lines 42-50: refill, then take a token
\* and return, or compute the wait.
Poll ==
    /\ UNCHANGED nonClientVars
    /\ pc = "acquire"
    /\ polls' = polls + 1
    /\ elapsed' = [elapsed EXCEPT ![cur] = 0]
    /\ LET tok == Refill(cur, tokens[cur], elapsed[cur]) IN
         IF HasToken(tok)
         THEN /\ tokens' = [tokens EXCEPT ![cur] = tok - Token]
              /\ acquired' = [acquired EXCEPT ![cur] = @ + 1]
              /\ pc' = IF caller = "_request" THEN "headers" ELSE "idle"
              /\ UNCHANGED <<sleep_time, slept>>
         ELSE /\ tokens' = [tokens EXCEPT ![cur] = tok]
              /\ sleep_time' = SleepTime(cur, tok)
              /\ slept' = Append(slept, Sleep("acquire", SleepTime(cur, tok)))
              /\ pc' = "sleeping"
              /\ UNCHANGED acquired
    /\ UNCHANGED <<caller, cur, quiet, calls, private_key>>
    /\ UNCHANGED reqVars

\* acquire, line 51: time.sleep(sleep_time) returns, no earlier than asked.
Wake ==
    /\ UNCHANGED nonClientVars
    /\ pc = "sleeping"
    /\ \E extra \in 0..MaxOversleep :
         /\ elapsed' = Advance(elapsed, sleep_time + extra)
         /\ quiet' = Disturb(quiet, {cur}, sleep_time + extra)
         /\ clock' = clock + sleep_time + extra
    /\ pc' = "acquire"
    /\ UNCHANGED <<tokens, caller, cur, sleep_time, slept, polls, acquired,
                   calls, private_key, method, authenticated, headers,
                   nsigned, attempt, last_exception, sent, result>>

\* Time passes while the thread is between calls.
Tick(d) ==
    /\ UNCHANGED nonClientVars
    /\ pc = "idle"
    /\ elapsed' = Advance(elapsed, d)
    /\ quiet' = Disturb(quiet, {}, d)
    /\ UNCHANGED <<tokens, pc, caller, cur, sleep_time, slept, polls,
                   acquired, calls, private_key>>
    /\ UNCHANGED reqVars

\* _request is entered, lines 114-121: the call is classified and goes to
\* the matching limiter.
Request(m, a) ==
    /\ UNCHANGED nonClientVars
    /\ pc = "idle"
    /\ calls < MaxCalls
    /\ calls' = calls + 1
    /\ method' = m
    /\ authenticated' = a
    /\ caller' = "_request"
    /\ cur' = IF IsWrite(m) THEN "write" ELSE "read"
    /\ pc' = "acquire"
    /\ slept' = <<>>
    /\ polls' = 0
    /\ clock' = 0
    /\ headers' = PlainHeaders
    /\ nsigned' = 0
    /\ attempt' = 0
    /\ last_exception' = "None"
    /\ sent' = <<>>
    /\ result' = NoResult
    /\ UNCHANGED <<tokens, elapsed, sleep_time, acquired, quiet, private_key>>

\* _request, lines 123-132: the headers are built, once, before the loop.
BuildHeaders ==
    /\ UNCHANGED nonClientVars
    /\ pc = "headers"
    /\ IF authenticated /\ private_key
       THEN /\ headers' = GetAuthHeaders(method, <<"/trade-api/v2", Path>>,
                                         clock, nsigned)
            /\ nsigned' = nsigned + 1
       ELSE /\ headers' = PlainHeaders
            /\ UNCHANGED nsigned
    /\ last_exception' = "None"
    /\ attempt' = 0
    /\ pc' = "send"
    /\ UNCHANGED <<tokens, elapsed, caller, cur, sleep_time, slept, polls,
                   acquired, quiet, calls, private_key, method, authenticated,
                   clock, sent, result>>

\* _request, lines 135-172: one HTTP attempt and what the loop makes of it.
Send(o) ==
    /\ UNCHANGED nonClientVars
    /\ pc = "send"
    /\ sent' = Append(sent, [headers |-> headers, outcome |-> o,
                             after |-> Len(slept), json |-> json_body])
    /\ CASE Disposition(o) = "retry" ->
              /\ last_exception' = IF o.kind \in Errors THEN o.kind
                                   ELSE last_exception
              /\ sleep_time' = Backoff(attempt)
              /\ slept' = Append(slept, Sleep("backoff", Backoff(attempt)))
              /\ pc' = "backoff"
              /\ UNCHANGED result
         [] OTHER ->
              /\ result' = Outcome(o)
              /\ pc' = "done"
              /\ UNCHANGED <<last_exception, sleep_time, slept>>
    /\ UNCHANGED <<tokens, elapsed, caller, cur, polls, acquired, quiet,
                   calls, private_key, method, authenticated, clock, headers,
                   nsigned, attempt>>

\* _request, lines 148 and 172-174: the backoff sleep returns; the loop
\* goes to its next attempt, or ends and the call raises.
BackoffWake ==
    /\ UNCHANGED nonClientVars
    /\ pc = "backoff"
    /\ \E extra \in 0..MaxOversleep :
         /\ elapsed' = Advance(elapsed, sleep_time + extra)
         /\ quiet' = Disturb(quiet, {}, sleep_time + extra)
         /\ clock' = clock + sleep_time + extra
    /\ attempt' = attempt + 1
    /\ IF LoopContinues(attempt)
       THEN /\ pc' = "send"
            /\ UNCHANGED result
       ELSE /\ pc' = "done"
            /\ result' = Exhausted(last_exception)
    /\ UNCHANGED <<tokens, caller, cur, sleep_time, slept, polls, acquired,
                   calls, private_key, method, authenticated, headers,
                   nsigned, last_exception, sent>>

\* The caller takes the call's result.
Return ==
    /\ UNCHANGED nonClientVars
    /\ pc = "done"
    /\ pc' = "idle"
    /\ UNCHANGED <<tokens, elapsed, caller, cur, sleep_time, slept, polls,
                   acquired, quiet, calls, private_key>>
    /\ UNCHANGED reqVars

\* --------------------------------------------------------- risk manager
\* Money is in whole dollars; confidence and expected value are in
\* hundredths (0.55 is 55).  The source computes in floats; rounding is not
\* modelled.

\* RiskManager.__init__ defaults
max_daily_loss == 50
max_portfolio_exposure_pct == 20

Tickers == {"T1", "T2"}

\* DailyPnL(date=...): a fresh ledger
DailyPnL(d) ==
    [date |-> d, realized_pnl |-> 0, unrealized_pnl |-> 0,
     trades_count |-> 0, wins |-> 0, losses |-> 0]

\* DailyPnL.total_pnl
total_pnl(ledger) == ledger.realized_pnl + ledger.unrealized_pnl

\* self._open_positions = {}
NoPositions == [t \in {} |-> 0]

\* self._open_positions.get(ticker, 0)
Get(positions, t) == IF t \in DOMAIN positions THEN positions[t] ELSE 0

RECURSIVE SumOver(_, _)
SumOver(f, S) ==
    IF S = {} THEN 0
    ELSE LET x == CHOOSE y \in S : TRUE IN f[x] + SumOver(f, S \ {x})

\* sum(self._open_positions.values())
current_exposure(positions) == SumOver(positions, DOMAIN positions)

\* A rollover that resets the date and the P&L but keeps the counters.
ResetDailyIfNeeded_KeepsCounters(ledger, day) ==
    IF ledger.date # day
    THEN [ledger EXCEPT !.date = day, !.realized_pnl = 0]
    ELSE ledger

\* A check that resets the ledger at every access.
ResetDailyIfNeeded_Always(ledger, day) == DailyPnL(day)

\* _reset_daily_if_needed: the ledger after the check
ResetDailyIfNeeded(ledger, day) ==
    IF ledger.date # day THEN DailyPnL(day) ELSE ledger

\* _reset_daily_if_needed, line 83: self._trades_today after the check
ResetTradesToday(ledger, day, n) == IF ledger.date # day THEN 0 ELSE n

\* A validation whose daily loss test is strict: a loss of exactly
\* max_daily_loss passes it.
ValidateTrade_StrictLoss(ledger, positions, signal, balance, min_confidence, min_ev) ==
    IF total_pnl(ledger) < -max_daily_loss
    THEN [valid |-> FALSE, reason |-> "Daily loss limit reached"]
    ELSE IF signal.confidence < min_confidence
    THEN [valid |-> FALSE, reason |-> "Confidence too low"]
    ELSE IF signal.expected_value < min_ev
    THEN [valid |-> FALSE, reason |-> "Expected value too low"]
    ELSE IF balance <= 0
    THEN [valid |-> FALSE, reason |-> "Insufficient balance"]
    ELSE IF current_exposure(positions) * 100 >= balance * max_portfolio_exposure_pct
    THEN [valid |-> FALSE, reason |-> "Portfolio exposure limit reached"]
    ELSE [valid |-> TRUE, reason |-> "Trade approved"]

\* A validation whose exposure test is strict.
ValidateTrade_StrictExposure(ledger, positions, signal, balance, min_confidence, min_ev) ==
    IF total_pnl(ledger) <= -max_daily_loss
    THEN [valid |-> FALSE, reason |-> "Daily loss limit reached"]
    ELSE IF signal.confidence < min_confidence
    THEN [valid |-> FALSE, reason |-> "Confidence too low"]
    ELSE IF signal.expected_value < min_ev
    THEN [valid |-> FALSE, reason |-> "Expected value too low"]
    ELSE IF balance <= 0
    THEN [valid |-> FALSE, reason |-> "Insufficient balance"]
    ELSE IF current_exposure(positions) * 100 > balance * max_portfolio_exposure_pct
    THEN [valid |-> FALSE, reason |-> "Portfolio exposure limit reached"]
    ELSE [valid |-> TRUE, reason |-> "Trade approved"]

\* A validation that tests the expected value before the confidence.
ValidateTrade_EvFirst(ledger, positions, signal, balance, min_confidence, min_ev) ==
    IF total_pnl(ledger) <= -max_daily_loss
    THEN [valid |-> FALSE, reason |-> "Daily loss limit reached"]
    ELSE IF signal.expected_value < min_ev
    THEN [valid |-> FALSE, reason |-> "Expected value too low"]
    ELSE IF signal.confidence < min_confidence
    THEN [valid |-> FALSE, reason |-> "Confidence too low"]
    ELSE IF balance <= 0
    THEN [valid |-> FALSE, reason |-> "Insufficient balance"]
    ELSE IF current_exposure(positions) * 100 >= balance * max_portfolio_exposure_pct
    THEN [valid |-> FALSE, reason |-> "Portfolio exposure limit reached"]
    ELSE [valid |-> TRUE, reason |-> "Trade approved"]

\* validate_trade, lines 204-226, on the ledger as rolled by line 202.
\* current_exposure >= balance * (pct / 100.0) is compared times 100.
ValidateTrade(ledger, positions, signal, balance, min_confidence, min_ev) ==
    IF total_pnl(ledger) <= -max_daily_loss
    THEN [valid |-> FALSE, reason |-> "Daily loss limit reached"]
    ELSE IF signal.confidence < min_confidence
    THEN [valid |-> FALSE, reason |-> "Confidence too low"]
    ELSE IF signal.expected_value < min_ev
    THEN [valid |-> FALSE, reason |-> "Expected value too low"]
    ELSE IF balance <= 0
    THEN [valid |-> FALSE, reason |-> "Insufficient balance"]
    ELSE IF current_exposure(positions) * 100 >= balance * max_portfolio_exposure_pct
    THEN [valid |-> FALSE, reason |-> "Portfolio exposure limit reached"]
    ELSE [valid |-> TRUE, reason |-> "Trade approved"]

\* The phrases a reason string of validate_trade contains (lines 206, 210,
\* 214, 218, 224, 226), leaving out the figures the f-strings append.
Phrases(reason) ==
    CASE reason = "Daily loss limit reached" ->
            {"Daily", "loss", "limit", "reached", "Daily loss limit reached"}
      [] reason = "Confidence too low" ->
            {"Confidence", "too", "low", "Confidence too low"}
      [] reason = "Expected value too low" ->
            {"Expected", "value", "too", "low", "Expected value",
             "Expected value too low"}
      [] reason = "Insufficient balance" ->
            {"Insufficient", "balance", "Insufficient balance"}
      [] reason = "Portfolio exposure limit reached" ->
            {"Portfolio", "exposure", "limit", "reached",
             "Portfolio exposure limit reached"}
      [] reason = "Trade approved" -> {"Trade", "approved", "Trade approved"}
      [] OTHER -> {}

\* A ledger that books a dollar of fees against every trade.
RecordInLedger_ChargesFee(ledger, pnl) ==
    [ledger EXCEPT !.trades_count = @ + 1,
                   !.realized_pnl = @ + pnl - 1,
                   !.wins = IF pnl > 0 THEN @ + 1 ELSE @,
                   !.losses = IF pnl < 0 THEN @ + 1 ELSE @]

\* A ledger that counts a trade of no P&L as a loss.
RecordInLedger_ZeroIsLoss(ledger, pnl) ==
    [ledger EXCEPT !.trades_count = @ + 1,
                   !.realized_pnl = @ + pnl,
                   !.wins = IF pnl > 0 THEN @ + 1 ELSE @,
                   !.losses = IF pnl <= 0 THEN @ + 1 ELSE @]

\* record_trade, lines 278-283: the rolled ledger with one more trade
RecordInLedger(ledger, pnl) ==
    [ledger EXCEPT !.trades_count = @ + 1,
                   !.realized_pnl = @ + pnl,
                   !.wins = IF pnl > 0 THEN @ + 1 ELSE @,
                   !.losses = IF pnl < 0 THEN @ + 1 ELSE @]

\* An exposure map that keeps the last traded ticker only.
AddExposure_ForgetsOthers(positions, t, cost) ==
    [x \in {t} |-> Get(positions, t) + cost]

\* record_trade, line 286
AddExposure(positions, t, cost) ==
    [x \in DOMAIN positions \cup {t} |->
        IF x = t THEN Get(positions, t) + cost ELSE positions[x]]

\* update_position, lines 296-299
SetExposure(positions, t, exposure) ==
    IF exposure <= 0
    THEN [x \in DOMAIN positions \ {t} |-> positions[x]]
    ELSE [x \in DOMAIN positions \cup {t} |->
            IF x = t THEN exposure ELSE positions[x]]

\* The trade signals the model validates: TradeSignal's confidence and
\* expected_value, below and at the thresholds.
Signals == [confidence : {54, 55}, expected_value : {4, 5}]
Balances == {0, 50, 100}
MinConfidences == {55}
MinEVs == {5}
Costs == {10}
Pnls == {-25, 0, 10}
Exposures == {0, 20}

NoSignal == [confidence |-> 0, expected_value |-> 0]

Op(name, prior, sig, bal, mc, me, t, amount, pnl, res) ==
    [name |-> name, prior_trades |-> prior.trades_count,
     rolled |-> prior.date # today, signal |-> sig, balance |-> bal,
     min_confidence |-> mc, min_ev |-> me, ticker |-> t, amount |-> amount,
     pnl |-> pnl, ret |-> res]

NoRet == [valid |-> FALSE, reason |-> ""]

NoOp == Op("", DailyPnL(0), NoSignal, 0, 0, 0, "", 0, 0, NoRet)

\* RiskManager.validate_trade
ValidateTradeCall(sig, bal, mc, me) ==
    /\ daily_pnl' = ResetDailyIfNeeded(daily_pnl, today)
    /\ trades_today' = ResetTradesToday(daily_pnl, today, trades_today)
    /\ lastOp' = Op("validate_trade", daily_pnl, sig, bal, mc, me, "", 0, 0,
                    ValidateTrade(ResetDailyIfNeeded(daily_pnl, today),
                                  open_positions, sig, bal, mc, me))
    /\ UNCHANGED <<today, open_positions, recorded>>
    /\ UNCHANGED <<clientVars, inputVars>>

\* RiskManager.record_trade
RecordTrade(t, cost, pnl) ==
    /\ recorded < MaxTrades
    /\ recorded' = recorded + 1
    /\ daily_pnl' = RecordInLedger(ResetDailyIfNeeded(daily_pnl, today), pnl)
    /\ open_positions' = AddExposure(open_positions, t, cost)
    /\ trades_today' = ResetTradesToday(daily_pnl, today, trades_today) + 1
    /\ lastOp' = Op("record_trade", daily_pnl, NoSignal, 0, 0, 0, t, cost, pnl,
                    NoRet)
    /\ UNCHANGED today
    /\ UNCHANGED <<clientVars, inputVars>>

\* RiskManager.update_position
UpdatePosition(t, exposure) ==
    /\ open_positions' = SetExposure(open_positions, t, exposure)
    /\ lastOp' = Op("update_position", daily_pnl, NoSignal, 0, 0, 0, t,
                    exposure, 0, NoRet)
    /\ UNCHANGED <<today, daily_pnl, trades_today, recorded>>
    /\ UNCHANGED <<clientVars, inputVars>>

\* A summary that also clears the exposure map.
GetDailySummary_ClearsExposure ==
    /\ daily_pnl' = ResetDailyIfNeeded(daily_pnl, today)
    /\ trades_today' = ResetTradesToday(daily_pnl, today, trades_today)
    /\ open_positions' = NoPositions
    /\ lastOp' = Op("get_daily_summary", daily_pnl, NoSignal, 0, 0, 0, "", 0,
                    0, NoRet)
    /\ UNCHANGED <<today, recorded>>
    /\ UNCHANGED <<clientVars, inputVars>>

\* RiskManager.get_daily_summary
GetDailySummary ==
    /\ daily_pnl' = ResetDailyIfNeeded(daily_pnl, today)
    /\ trades_today' = ResetTradesToday(daily_pnl, today, trades_today)
    /\ lastOp' = Op("get_daily_summary", daily_pnl, NoSignal, 0, 0, 0, "", 0,
                    0, NoRet)
    /\ UNCHANGED <<today, open_positions, recorded>>
    /\ UNCHANGED <<clientVars, inputVars>>

\* The UTC date changes.
NewDay ==
    /\ today < MaxDay
    /\ today' = today + 1
    /\ UNCHANGED <<daily_pnl, open_positions, trades_today, recorded, lastOp>>
    /\ UNCHANGED <<clientVars, inputVars>>

\* ------------------------------------------------- sizing and orders
\* The floats of the sizing code are modelled as exact fractions n/d in
\* lowest terms with d > 0; rounding is not modelled.  Probabilities of a
\* signal are given in hundredths (estimated_probability) and thousandths
\* (market_probability); an Optional[int] is <<>> for None and <<x>> for x.

Max(a, b) == IF a >= b THEN a ELSE b

Abs(x) == IF x < 0 THEN -x ELSE x

RECURSIVE GCD(_, _)
GCD(a, b) == IF b = 0 THEN a ELSE GCD(b, a % b)

\* The fraction n/d, d # 0, in lowest terms.
Frac(n, d) ==
    LET g == GCD(Abs(n), Abs(d))
        sgn == IF d < 0 THEN -1 ELSE 1
    IN [n |-> sgn * (n \div g), d |-> sgn * (d \div g)]

Whole(k) == [n |-> k, d |-> 1]
FSub(a, b) == Frac(a.n * b.d - b.n * a.d, a.d * b.d)
FMul(a, b) == Frac(a.n * b.n, a.d * b.d)
FDiv(a, b) == Frac(a.n * b.d, a.d * b.n)
FLe(a, b) == a.n * b.d <= b.n * a.d
FMax(a, b) == IF FLe(b, a) THEN a ELSE b

\* int(x): truncation towards zero
Trunc(a) == IF a.n >= 0 THEN a.n \div a.d ELSE -((-a.n) \div a.d)

\* RiskManager.__init__ defaults
max_position_size == 100
max_trade_cost == 25
kelly_fraction == Frac(1, 2)

\* A Kelly fraction that is not floored at zero.
kelly_criterion_Unfloored(probability, odds_decimal) ==
    IF \/ FLe(probability, Whole(0))
       \/ FLe(Whole(1), probability)
       \/ FLe(odds_decimal, Whole(0))
    THEN Whole(0)
    ELSE LET q == FSub(Whole(1), probability)
             kelly == FDiv(FSub(FMul(probability, odds_decimal), q),
                           odds_decimal)
         IN FMul(kelly, kelly_fraction)

\* RiskManager.kelly_criterion
kelly_criterion(probability, odds_decimal) ==
    IF \/ FLe(probability, Whole(0))
       \/ FLe(Whole(1), probability)
       \/ FLe(odds_decimal, Whole(0))
    THEN Whole(0)
    ELSE LET q == FSub(Whole(1), probability)
             kelly == FDiv(FSub(FMul(probability, odds_decimal), q),
                           odds_decimal)
         IN FMul(FMax(Whole(0), kelly), kelly_fraction)

\* A sizing that leaves out the per-trade cost limit.
calculate_position_size_NoCostCap(ledger, positions, signal, balance, cost_per_contract_cents) ==
    IF cost_per_contract_cents <= 0 \/ balance <= 0 THEN 0
    ELSE
    LET cost_per_contract == Frac(cost_per_contract_cents, 100)
        profit_if_win == FSub(Whole(1), cost_per_contract)
    IN  IF FLe(profit_if_win, Whole(0)) THEN 0
        ELSE
        LET odds == FDiv(profit_if_win, cost_per_contract)
            kelly_frac ==
                kelly_criterion(Frac(signal.estimated_probability, 100), odds)
            kelly_amount == FMul(Whole(balance), kelly_frac)
            max_from_kelly == Trunc(FDiv(kelly_amount, cost_per_contract))
            max_from_position == max_position_size
            max_from_cost ==
                Trunc(FDiv(Whole(max_trade_cost), cost_per_contract))
            max_exposure ==
                FMul(Whole(balance), Frac(max_portfolio_exposure_pct, 100))
            remaining_exposure ==
                FMax(Whole(0),
                     FSub(max_exposure, Whole(current_exposure(positions))))
            max_from_exposure ==
                Trunc(FDiv(remaining_exposure, cost_per_contract))
            remaining_daily ==
                Max(0, max_daily_loss - Abs(Min(0, total_pnl(ledger))))
            max_from_daily ==
                Trunc(FDiv(Whole(remaining_daily), cost_per_contract))
            size == Min(max_from_kelly,
                    Min(max_from_position,
                    Min(max_from_exposure, max_from_daily)))
        IN Max(0, size)

\* calculate_position_size, lines 131-184, on the ledger as rolled by line
\* 129.
calculate_position_size(ledger, positions, signal, balance, cost_per_contract_cents) ==
    IF cost_per_contract_cents <= 0 \/ balance <= 0 THEN 0
    ELSE
    LET cost_per_contract == Frac(cost_per_contract_cents, 100)
        profit_if_win == FSub(Whole(1), cost_per_contract)
    IN  IF FLe(profit_if_win, Whole(0)) THEN 0
        ELSE
        LET odds == FDiv(profit_if_win, cost_per_contract)
            kelly_frac ==
                kelly_criterion(Frac(signal.estimated_probability, 100), odds)
            kelly_amount == FMul(Whole(balance), kelly_frac)
            max_from_kelly == Trunc(FDiv(kelly_amount, cost_per_contract))
            max_from_position == max_position_size
            max_from_cost ==
                Trunc(FDiv(Whole(max_trade_cost), cost_per_contract))
            max_exposure ==
                FMul(Whole(balance), Frac(max_portfolio_exposure_pct, 100))
            remaining_exposure ==
                FMax(Whole(0),
                     FSub(max_exposure, Whole(current_exposure(positions))))
            max_from_exposure ==
                Trunc(FDiv(remaining_exposure, cost_per_contract))
            remaining_daily ==
                Max(0, max_daily_loss - Abs(Min(0, total_pnl(ledger))))
            max_from_daily ==
                Trunc(FDiv(Whole(remaining_daily), cost_per_contract))
            size == Min(max_from_kelly,
                    Min(max_from_position,
                    Min(max_from_cost,
                    Min(max_from_exposure, max_from_daily))))
        IN Max(0, size)

\* Optional[...]: None and a present value
None == <<>>
Some(x) == <<x>>

\* The truth value Python's `or` gives an Optional[int]: None and 0 are false.
Truthy(opt) == opt # None /\ opt[1] # 0

\* build_order, lines 243-246: suggested_price or int(probability * 100)
cost_cents(signal) ==
    IF Truthy(signal.suggested_price) THEN signal.suggested_price[1]
    ELSE IF signal.side = "yes"
    THEN Trunc(FMul(Frac(signal.market_probability, 1000), Whole(100)))
    ELSE Trunc(FMul(FSub(Whole(1), Frac(signal.market_probability, 1000)),
                    Whole(100)))

\* build_order, line 248 negated: the call reaches calculate_position_size
PriceInRange(signal) == ~(cost_cents(signal) <= 0 \/ cost_cents(signal) >= 100)

\* OrderRequest(...), lines 257-267; the other fields take the dataclass's
\* defaults
OrderRequest(signal, count) ==
    [ticker |-> signal.ticker, side |-> signal.side, action |-> signal.action,
     count |-> count, order_type |-> "limit",
     yes_price |-> IF signal.side = "yes" THEN Some(cost_cents(signal))
                   ELSE None,
     no_price |-> IF signal.side = "no" THEN Some(cost_cents(signal))
                  ELSE None,
     client_order_id |-> "", time_in_force |-> "gtc", buy_max_cost |-> None,
     post_only |-> TRUE]

\* An order builder that keeps an order of no contracts.
build_order_KeepsEmpty(ledger, positions, signal, balance) ==
    IF ~PriceInRange(signal) THEN None
    ELSE Some(OrderRequest(signal,
                 calculate_position_size(ledger, positions, signal, balance,
                                         cost_cents(signal))))

\* build_order, on the ledger as rolled by calculate_position_size: None or
\* the order
build_order(ledger, positions, signal, balance) ==
    IF ~PriceInRange(signal) THEN None
    ELSE LET count == calculate_position_size(ledger, positions, signal,
                                              balance, cost_cents(signal))
         IN IF count <= 0 THEN None ELSE Some(OrderRequest(signal, count))

\* dict: the entry key -> value if present, else nothing
Entry(present, key, value) ==
    IF present THEN key :> value ELSE [k \in {} |-> 0]

\* A payload that always carries a yes_price key.
to_api_payload_AlwaysYes(order) ==
    [ticker |-> order.ticker, side |-> order.side, action |-> order.action,
     count |-> order.count, type |-> order.order_type]
    @@ Entry(TRUE, "yes_price",
             IF order.yes_price # None THEN order.yes_price[1]
             ELSE order.no_price[1])
    @@ Entry(order.no_price # None, "no_price",
             IF order.no_price # None THEN order.no_price[1] ELSE 0)
    @@ Entry(order.client_order_id # "", "client_order_id", order.client_order_id)
    @@ Entry(order.time_in_force # "", "time_in_force", order.time_in_force)
    @@ Entry(order.post_only, "post_only", TRUE)

\* OrderRequest.to_api_payload (buy_max_cost is None in every order built)
to_api_payload(order) ==
    [ticker |-> order.ticker, side |-> order.side, action |-> order.action,
     count |-> order.count, type |-> order.order_type]
    @@ Entry(order.yes_price # None, "yes_price",
             IF order.yes_price # None THEN order.yes_price[1] ELSE 0)
    @@ Entry(order.no_price # None, "no_price",
             IF order.no_price # None THEN order.no_price[1] ELSE 0)
    @@ Entry(order.client_order_id # "", "client_order_id", order.client_order_id)
    @@ Entry(order.time_in_force # "", "time_in_force", order.time_in_force)
    @@ Entry(order.buy_max_cost # None, "buy_max_cost",
             IF order.buy_max_cost # None THEN order.buy_max_cost[1] ELSE 0)
    @@ Entry(order.post_only, "post_only", TRUE)

\* The inputs of the sizing calls.
Probabilities ==
    {Frac(-1, 10), Whole(0), Frac(3, 10), Frac(1, 2), Frac(3, 5), Whole(1),
     Frac(11, 10)}
OddsDecimals == {Whole(-1), Whole(0), Frac(1, 2), Whole(1), Whole(3)}
OrderSignals ==
    [ticker : {"T1"}, side : {"yes", "no"}, action : {"buy"},
     confidence : {55}, expected_value : {5},
     estimated_probability : {30, 70},
     market_probability : {5, 500, 1000},
     suggested_price : {None, Some(0), Some(1), Some(50), Some(100)}]
SizingSignals ==
    [ticker : {"T1"}, side : {"yes"}, action : {"buy"},
     confidence : {55}, expected_value : {5},
     estimated_probability : {30, 55, 70, 100},
     market_probability : {500}, suggested_price : {None}]
SizingBalances == {0, 100, 1000}
SizingCents == {0, 1, 50, 99, 100}
LossPnls == {-40, 0}
ClientOrderIds == {"", "uuid"}

\* The call a behaviour of the sizing specification makes, with its
\* arguments.
NoArgs == [op |-> "none"]
KellyArgs ==
    [op : {"kelly_criterion"}, probability : Probabilities,
     odds_decimal : OddsDecimals]
SizingArgs ==
    [op : {"calculate_position_size"}, signal : SizingSignals,
     balance : SizingBalances, cost_per_contract_cents : SizingCents]
OrderArgs ==
    [op : {"build_order"}, signal : OrderSignals, balance : SizingBalances]

\* RiskManager.kelly_criterion
KellyCriterion ==
    /\ args.op = "kelly_criterion"
    /\ lastOp' = Op("kelly_criterion", daily_pnl, NoSignal, 0, 0, 0, "", 0, 0,
                    kelly_criterion(args.probability, args.odds_decimal))
    /\ UNCHANGED <<today, daily_pnl, open_positions, trades_today, recorded>>
    /\ UNCHANGED <<clientVars, inputVars>>

\* RiskManager.calculate_position_size
CalculatePositionSize ==
    /\ args.op = "calculate_position_size"
    /\ daily_pnl' = ResetDailyIfNeeded(daily_pnl, today)
    /\ trades_today' = ResetTradesToday(daily_pnl, today, trades_today)
    /\ lastOp' = Op("calculate_position_size", daily_pnl, args.signal,
                    args.balance, 0, 0, args.signal.ticker,
                    args.cost_per_contract_cents, 0,
                    calculate_position_size(
                        ResetDailyIfNeeded(daily_pnl, today), open_positions,
                        args.signal, args.balance,
                        args.cost_per_contract_cents))
    /\ UNCHANGED <<today, open_positions, recorded>>
    /\ UNCHANGED <<clientVars, inputVars>>

\* RiskManager.build_order; the ledger rolls only if the call gets to
\* calculate_position_size
BuildOrder ==
    /\ args.op = "build_order"
    /\ daily_pnl' = IF PriceInRange(args.signal)
                    THEN ResetDailyIfNeeded(daily_pnl, today) ELSE daily_pnl
    /\ trades_today' = IF PriceInRange(args.signal)
                       THEN ResetTradesToday(daily_pnl, today, trades_today)
                       ELSE trades_today
    /\ lastOp' = Op("build_order", daily_pnl, args.signal, args.balance, 0, 0,
                    args.signal.ticker, cost_cents(args.signal), 0,
                    build_order(ResetDailyIfNeeded(daily_pnl, today),
                                open_positions, args.signal, args.balance))
    /\ UNCHANGED <<today, open_positions, recorded>>
    /\ UNCHANGED <<clientVars, inputVars>>

\* OrderRequest.to_api_payload on the order build_order returned, as it is
\* or with the client_order_id create_order gives it (client.py:363-366)
ToApiPayload(id) ==
    /\ lastOp.name = "build_order"
    /\ lastOp.ret # None
    /\ LET order == [lastOp.ret[1] EXCEPT !.client_order_id = id]
       IN lastOp' = Op("to_api_payload", daily_pnl, lastOp.signal,
                       lastOp.balance, 0, 0, lastOp.ticker, lastOp.amount, 0,
                       [order |-> order, payload |-> to_api_payload(order)])
    /\ UNCHANGED <<today, daily_pnl, open_positions, trades_today, recorded>>
    /\ UNCHANGED <<clientVars, inputVars>>

\* ------------------------------------------------ observing the ledger
\* What a call that runs _reset_daily_if_needed does to the log: a rollover
\* empties it.
LogRoll ==
    /\ day_log' = IF daily_pnl.date # today THEN <<>> ELSE day_log
    /\ seq_base' = IF daily_pnl.date # today THEN open_positions ELSE seq_base
    /\ seq_from' = IF daily_pnl.date # today THEN 0 ELSE seq_from

\* record_trade(t, cost, pnl) is logged, after the rollover if there is one.
LogTrade(t, cost, pnl) ==
    /\ day_log' = Append(IF daily_pnl.date # today THEN <<>> ELSE day_log,
                         [ticker |-> t, cost |-> cost, pnl |-> pnl])
    /\ seq_base' = IF daily_pnl.date # today THEN open_positions ELSE seq_base
    /\ seq_from' = IF daily_pnl.date # today THEN 0 ELSE seq_from

\* update_position ends the sequence of record_trade calls whose costs add
\* up in open_positions: a new sequence starts from the exposure it leaves.
LogUpdate ==
    /\ seq_base' = open_positions'
    /\ seq_from' = Len(day_log)
    /\ UNCHANGED day_log

\* ---------------------------------------------------------- the cycle
\* main.py: run_trading_cycle and the loop of main around it.  A client
\* call is taken with what KalshiClient._request gives its caller: a value,
\* a KalshiAPIError, or the requests error re-raised after the retries.

\* settings.py: Settings defaults, in hundredths
min_confidence == 55
min_expected_value == 5

\* create_strategies: the strategies, in the order of the list
Strategies == <<"weather", "economic">>

\* What scan() of a strategy returns: its markets, by ticker, in order.
MarketsOf(s) == IF s = "weather" THEN <<"T1">> ELSE <<"T2", "T3">>

TradeSignal(t, side, conf, ev, est, price) ==
    [ticker |-> t, side |-> side, action |-> "buy", confidence |-> conf,
     expected_value |-> ev, estimated_probability |-> est,
     market_probability |-> 500, suggested_price |-> price]

\* The signals analyze() can return for a market: on T1 and T2 signals that
\* pass validation, on T3 one of too low a confidence and one that sizes
\* to no contract.
SignalsOf(m) ==
    IF m = "T1" THEN {TradeSignal("T1", "yes", 60, 5, 70, Some(50))}
    ELSE IF m = "T2" THEN {TradeSignal("T2", "no", 60, 10, 70, None)}
    ELSE {TradeSignal("T3", "yes", 50, 10, 70, Some(50)),
          TradeSignal("T3", "yes", 60, 10, 30, Some(50))}

\* What analyze(market) does: raises (on T2), returns None (on T1 and T3)
\* or returns a signal.
AnalysisOutcomes(m) ==
    (IF m = "T2" THEN {[kind |-> "raise", signal |-> None]}
     ELSE {[kind |-> "none", signal |-> None]})
    \cup {[kind |-> "signal", signal |-> Some(sig)] : sig \in SignalsOf(m)}

Range(seq) == {seq[i] : i \in 1..Len(seq)}

\* What one strategy.run() meets: scan() raising, or scan() returning the
\* markets and analyze() doing one of the above on each.
Runs(s) ==
    {[scan |-> "raise",
      analysis |-> [m \in Range(MarketsOf(s)) |->
                       [kind |-> "none", signal |-> None]]]}
    \cup {[scan |-> "ok", analysis |-> f] :
            f \in {g \in [Range(MarketsOf(s)) ->
                           UNION {AnalysisOutcomes(m) :
                                     m \in Range(MarketsOf(s))}] :
                     \A m \in Range(MarketsOf(s)) :
                        g[m] \in AnalysisOutcomes(m)}}

\* A run that lets an exception of analyze() escape.
BaseStrategyRun_AbortsOnError(s, r) ==
    LET kept == SelectSeq(MarketsOf(s),
                          LAMBDA m : r.analysis[m].kind = "signal")
    IN IF r.scan = "raise"
          \/ \E m \in Range(MarketsOf(s)) : r.analysis[m].kind = "raise"
       THEN [raised |-> TRUE, signals |-> <<>>]
       ELSE [raised |-> FALSE,
             signals |-> [i \in 1..Len(kept) |-> r.analysis[kept[i]].signal[1]]]

\* BaseStrategy.run: scan() is outside the try, analyze() inside it
BaseStrategyRun(s, r) ==
    LET kept == SelectSeq(MarketsOf(s),
                          LAMBDA m : r.analysis[m].kind = "signal")
    IN IF r.scan = "raise"
       THEN [raised |-> TRUE, signals |-> <<>>]
       ELSE [raised |-> FALSE,
             signals |-> [i \in 1..Len(kept) |-> r.analysis[kept[i]].signal[1]]]

\* A cycle that leaves the signals in the order the strategies gave them.
SortByExpectedValue_Unsorted(seq) == seq

\* list.sort(key=expected_value, reverse=True): stable, descending
RECURSIVE SortByExpectedValue(_)
SortByExpectedValue(seq) ==
    IF seq = <<>> THEN <<>>
    ELSE LET front == SortByExpectedValue(SubSeq(seq, 1, Len(seq) - 1))
             x == seq[Len(seq)]
             ahead == SelectSeq(front,
                         LAMBDA y : y.expected_value >= x.expected_value)
             behind == SelectSeq(front,
                         LAMBDA y : y.expected_value < x.expected_value)
         IN ahead \o <<x>> \o behind

\* What a client call gives its caller: a value, a KalshiAPIError, or the
\* requests error of the last attempt (ConnectionError here; Timeout takes
\* the same path).
Failures == {"KalshiAPIError", "ConnectionError"}
StatusOutcomes ==
    {[kind |-> "value", exchange_active |-> e, trading_active |-> t] :
        e \in BOOLEAN, t \in BOOLEAN}
    \cup {[kind |-> k, exchange_active |-> FALSE, trading_active |-> FALSE] :
            k \in Failures}
CycleBalances == {100, 1000}
BalanceOutcomes ==
    {[kind |-> "value", balance |-> b] : b \in CycleBalances}
    \cup {[kind |-> k, balance |-> 0] : k \in Failures}
OrderOutcomes == {"value"} \cup Failures

Event(call, arg, outcome) == [call |-> call, arg |-> arg, outcome |-> outcome]

NoCycleResult == [kind |-> "none", value |-> 0]
\* A cycle that reports no trades whatever it did.
Returned_Zero(n) == [kind |-> "returned", value |-> 0]
Returned(n) == [kind |-> "returned", value |-> n]
Raised == [kind |-> "raised", value |-> 0]

\* A mode that stays forced once a cycle has forced it.
EnterMode_CarriesOver(requested, previous) == requested \/ previous

\* main, line 394: scan_only=args.scan_only, whatever the last cycle's was
EnterMode(requested, previous) == requested

\* A status step that takes a failed query for paused trading.
AfterStatus_ErrorScans(o, mode) ==
    IF o.kind \in Errors THEN [next |-> "raised", scan_only |-> mode]
    ELSE IF o.kind = "KalshiAPIError"
    THEN [next |-> "balance", scan_only |-> TRUE]
    ELSE IF ~o.exchange_active THEN [next |-> "returned", scan_only |-> mode]
    ELSE IF ~o.trading_active THEN [next |-> "balance", scan_only |-> TRUE]
    ELSE [next |-> "balance", scan_only |-> mode]

\* A status step that scans on when the exchange is inactive.
AfterStatus_InactiveScans(o, mode) ==
    IF o.kind \in Errors THEN [next |-> "raised", scan_only |-> mode]
    ELSE IF o.kind = "KalshiAPIError"
    THEN [next |-> "balance", scan_only |-> mode]
    ELSE IF ~o.exchange_active \/ ~o.trading_active
    THEN [next |-> "balance", scan_only |-> TRUE]
    ELSE [next |-> "balance", scan_only |-> mode]

\* run_trading_cycle, lines 193-206: where the cycle goes after the status
\* query, and in what mode; only KalshiAPIError is caught
AfterStatus(o, mode) ==
    IF o.kind \in Errors THEN [next |-> "raised", scan_only |-> mode]
    ELSE IF o.kind = "KalshiAPIError"
    THEN [next |-> "balance", scan_only |-> mode]
    ELSE IF ~o.exchange_active THEN [next |-> "returned", scan_only |-> mode]
    ELSE IF ~o.trading_active THEN [next |-> "balance", scan_only |-> TRUE]
    ELSE [next |-> "balance", scan_only |-> mode]

\* run_trading_cycle, lines 209-215: only KalshiAPIError is caught
AfterBalance(o, mode) ==
    IF o.kind \in Errors
    THEN [next |-> "raised", scan_only |-> mode, balance |-> 0]
    ELSE IF o.kind = "KalshiAPIError"
    THEN [next |-> "strategies", scan_only |-> TRUE, balance |-> 0]
    ELSE [next |-> "strategies", scan_only |-> mode, balance |-> o.balance]

\* A cost left in cents.
OrderCost_InCents(order) ==
    (IF Truthy(order.yes_price) THEN order.yes_price[1]
     ELSE IF Truthy(order.no_price) THEN order.no_price[1]
     ELSE 0) * order.count

\* run_trading_cycle, line 280: (yes_price or no_price or 0) * count / 100.0,
\* in dollars; the orders of this model cost whole dollars
OrderCost(order) ==
    LET price == IF Truthy(order.yes_price) THEN order.yes_price[1]
                 ELSE IF Truthy(order.no_price) THEN order.no_price[1]
                 ELSE 0
        cost == Frac(price * order.count, 100)
    IN CHOOSE dollars \in {cost.n} : cost.d = 1

\* The status query of the cycle that wrote `log` found the exchange active
\* and trading paused.
Paused(log) ==
    /\ log # <<>>
    /\ log[1].outcome.kind = "value"
    /\ log[1].outcome.exchange_active
    /\ ~log[1].outcome.trading_active

cycleFrame == <<clientVars, inputVars, logVars>>
ledgerVars == <<daily_pnl, open_positions, trades_today, recorded>>
localVars == <<scan_only, cycle_balance, strat, all_signals, sig_i,
               trades_executed, cycle_log>>

\* main, line 386: the seconds of the sleep outside trading hours
OffHoursSleep == 60

\* signal_handler: SIGINT or SIGTERM arrives
SignalHandler ==
    /\ running
    /\ running' = FALSE
    /\ UNCHANGED <<config, mpc, cycle, sleep_left, localVars, cycle_result,
                   paused_before>>
    /\ UNCHANGED <<riskVars, cycleFrame>>

\* main, lines 373-388: the top of the loop.  Outside trading hours it
\* breaks or sleeps 60 s; inside it calls run_trading_cycle, whose frame
\* starts with the caller's scan_only and trades_executed = 0.
LoopTop(in_hours) ==
    /\ mpc = "top"
    /\ running
    /\ cycle < MaxCycles
    /\ cycle' = cycle + 1
    /\ IF in_hours
       THEN /\ mpc' = "status"
            /\ scan_only' = EnterMode(config.scan_only, scan_only)
            /\ trades_executed' = 0
            /\ cycle_balance' = 0
            /\ strat' = 1
            /\ all_signals' = <<>>
            /\ sig_i' = 1
            /\ cycle_log' = <<>>
            /\ cycle_result' = NoCycleResult
            /\ UNCHANGED sleep_left
       ELSE /\ mpc' = IF config.once THEN "final" ELSE "sleep60"
            /\ sleep_left' = IF config.once THEN sleep_left ELSE OffHoursSleep
            /\ UNCHANGED <<localVars, cycle_result>>
    /\ UNCHANGED <<config, running, paused_before>>
    /\ UNCHANGED <<riskVars, cycleFrame>>

\* main, lines 386-387: time.sleep(60) returns, 60 seconds after it was
\* called, and the loop continues at its top
OffHoursWake ==
    /\ mpc = "sleep60"
    /\ mpc' = "top"
    /\ sleep_left' = 0
    /\ UNCHANGED <<config, running, cycle, localVars, cycle_result,
                   paused_before>>
    /\ UNCHANGED <<riskVars, cycleFrame>>

\* main, line 373: while _running fails
LoopExit ==
    /\ mpc = "top"
    /\ ~running
    /\ mpc' = "final"
    /\ UNCHANGED <<config, running, cycle, sleep_left, localVars,
                   cycle_result, paused_before>>
    /\ UNCHANGED <<riskVars, cycleFrame>>

\* run_trading_cycle, step 1, lines 192-206
CheckStatus(o) ==
    /\ mpc = "status"
    /\ cycle_log' = Append(cycle_log, Event("get_exchange_status", "", o))
    /\ mpc' = AfterStatus(o, scan_only).next
    /\ scan_only' = AfterStatus(o, scan_only).scan_only
    /\ cycle_result' =
         IF AfterStatus(o, scan_only).next = "returned" THEN Returned(0)
         ELSE IF AfterStatus(o, scan_only).next = "raised" THEN Raised
         ELSE cycle_result
    /\ UNCHANGED <<config, running, cycle, sleep_left, cycle_balance, strat,
                   all_signals, sig_i, trades_executed, paused_before>>
    /\ UNCHANGED <<riskVars, cycleFrame>>

\* run_trading_cycle, step 2, lines 208-215
FetchBalance(o) ==
    /\ mpc = "balance"
    /\ cycle_log' = Append(cycle_log, Event("get_balance", "", o))
    /\ mpc' = AfterBalance(o, scan_only).next
    /\ scan_only' = AfterBalance(o, scan_only).scan_only
    /\ cycle_balance' = AfterBalance(o, scan_only).balance
    /\ cycle_result' =
         IF AfterBalance(o, scan_only).next = "raised" THEN Raised
         ELSE cycle_result
    /\ UNCHANGED <<config, running, cycle, sleep_left, strat, all_signals,
                   sig_i, trades_executed, paused_before>>
    /\ UNCHANGED <<riskVars, cycleFrame>>

\* run_trading_cycle, step 3, lines 217-224: one iteration of the loop over
\* the strategies
RunStrategy(r) ==
    /\ mpc = "strategies"
    /\ strat <= Len(Strategies)
    /\ r \in Runs(Strategies[strat])
    /\ cycle_log' = Append(cycle_log,
                           Event("strategy.run", Strategies[strat], r))
    /\ all_signals' = all_signals \o BaseStrategyRun(Strategies[strat], r).signals
    /\ strat' = strat + 1
    /\ UNCHANGED <<config, running, mpc, cycle, sleep_left, scan_only,
                   cycle_balance, sig_i, trades_executed, cycle_result,
                   paused_before>>
    /\ UNCHANGED <<riskVars, cycleFrame>>

\* run_trading_cycle, lines 226-233: return 0 without signals, else sort
SortSignals ==
    /\ mpc = "strategies"
    /\ strat > Len(Strategies)
    /\ IF all_signals = <<>>
       THEN /\ mpc' = "returned"
            /\ cycle_result' = Returned(0)
            /\ UNCHANGED all_signals
       ELSE /\ mpc' = "signals"
            /\ all_signals' = SortByExpectedValue(all_signals)
            /\ UNCHANGED cycle_result
    /\ UNCHANGED <<config, running, cycle, sleep_left, scan_only,
                   cycle_balance, strat, sig_i, trades_executed, cycle_log,
                   paused_before>>
    /\ UNCHANGED <<riskVars, cycleFrame>>

\* A scan-only branch that logs the signal without counting it.
ScanOnlyStep_NotCounted(same, signal) ==
    [same EXCEPT !.events = <<Event("scan_only", signal, "")>>]

\* run_trading_cycle, lines 238-241: in scan-only mode the signal is logged
\* and counted, and the loop continues
ScanOnlyStep(same, signal) ==
    [same EXCEPT !.counted = 1,
                 !.events = <<Event("scan_only", signal, "")>>]

\* A dry run that logs the order and does not count it.
DryRunStep_NotCounted(built, order) ==
    [built EXCEPT !.events = @ \o <<Event("dry_run", order, "")>>]

\* run_trading_cycle, lines 263-277: in dry-run mode the order is logged and
\* counted, and nothing is sent
DryRunStep(built, order) ==
    [built EXCEPT !.counted = 1,
                  !.events = @ \o <<Event("dry_run", order, "")>>]

\* run_trading_cycle, lines 236-288: what one iteration of the loop over the
\* signals does with `signal`, given the ledger after the daily reset, the
\* verdict of validate_trade, the order of build_order, the outcome o of
\* create_order and the outcome b of the get_balance after it: the ledger
\* and the exposure after it, whether the signal counts, the balance, the
\* calls made, and whether an error escapes.
SignalStep(signal, o, b, rolled, verdict, order) ==
    LET same == [ledger |-> daily_pnl, positions |-> open_positions,
                 trades_today |-> trades_today, recorded |-> recorded,
                 counted |-> 0, balance |-> cycle_balance, events |-> <<>>,
                 raised |-> FALSE]
        validated ==
            [same EXCEPT
                !.ledger = rolled,
                !.trades_today =
                    ResetTradesToday(daily_pnl, today, trades_today),
                !.events = <<Event("validate_trade", signal, verdict)>>]
        built ==
            [validated EXCEPT
                !.events = @ \o <<Event("build_order", signal, order)>>]
        created ==
            [built EXCEPT
                !.events = @ \o <<Event("create_order", order[1], o)>>]
    IN  IF scan_only THEN ScanOnlyStep(same, signal)
        ELSE IF ~verdict.valid THEN validated
        ELSE IF order = None THEN built
        ELSE IF config.dry_run
        THEN DryRunStep(built, order[1])
        ELSE IF o \in Errors THEN [created EXCEPT !.raised = TRUE]
        ELSE IF o = "KalshiAPIError" THEN created
        ELSE [created EXCEPT
                !.ledger = RecordInLedger(rolled, 0),
                !.positions = AddExposure(open_positions, order[1].ticker,
                                          OrderCost(order[1])),
                !.trades_today = @ + 1,
                !.recorded = @ + 1,
                !.counted = 1,
                !.balance = IF b.kind = "value" THEN b.balance ELSE @,
                !.events = @ \o <<Event("record_trade",
                                        [ticker |-> order[1].ticker,
                                         cost |-> OrderCost(order[1]),
                                         pnl |-> 0], ""),
                                  Event("get_balance", "", b)>>,
                !.raised = b.kind \in Errors]

\* The same iteration with validate_trade and build_order called on the
\* RiskManager as it stands.
ProcessOne(signal, o, b) ==
    SignalStep(signal, o, b,
               ResetDailyIfNeeded(daily_pnl, today),
               ValidateTrade(ResetDailyIfNeeded(daily_pnl, today),
                             open_positions, signal, cycle_balance,
                             min_confidence, min_expected_value),
               build_order(ResetDailyIfNeeded(daily_pnl, today),
                           open_positions, signal, cycle_balance))

\* run_trading_cycle, steps 4 and 5: one iteration of the loop over the
\* signals.  An outcome is drawn for a call only when the call is made.
ProcessSignal(o, b) ==
    /\ mpc = "signals"
    /\ sig_i <= Len(all_signals)
    /\ \E step \in {ProcessOne(all_signals[sig_i], o, b)} :
          /\ o # "value" =>
                \E i \in 1..Len(step.events) :
                    step.events[i].call = "create_order"
          /\ b # [kind |-> "value", balance |-> 100] =>
                \E i \in 1..Len(step.events) :
                    step.events[i].call = "record_trade"
          /\ daily_pnl' = step.ledger
          /\ open_positions' = step.positions
          /\ trades_today' = step.trades_today
          /\ recorded' = step.recorded
          /\ trades_executed' = trades_executed + step.counted
          /\ cycle_balance' = step.balance
          /\ cycle_log' = cycle_log \o step.events
          /\ mpc' = IF step.raised THEN "raised" ELSE "signals"
          /\ cycle_result' = IF step.raised THEN Raised ELSE cycle_result
    /\ sig_i' = sig_i + 1
    /\ UNCHANGED <<config, running, cycle, sleep_left, scan_only, strat,
                   all_signals, paused_before>>
    /\ UNCHANGED <<today, lastOp, cycleFrame>>

\* run_trading_cycle, line 290: return trades_executed
ReturnTrades ==
    /\ mpc = "signals"
    /\ sig_i > Len(all_signals)
    /\ mpc' = "returned"
    /\ cycle_result' = Returned(trades_executed)
    /\ UNCHANGED <<config, running, cycle, sleep_left, localVars,
                   paused_before>>
    /\ UNCHANGED <<riskVars, cycleFrame>>

\* A loop that a failed cycle ends.
AfterCall_RaiseEnds(how, once) ==
    IF once \/ how = "raised" THEN "final" ELSE "sleep"

\* main, lines 406-416: whether the call returned or raised, break if
\* --once, else start the inter-cycle sleep
AfterCall(how, once) == IF once THEN "final" ELSE "sleep"

\* main, lines 398-416: after the call, the daily summary if it returned,
\* the except clause if it raised; then break if --once, else start the
\* inter-cycle sleep.  The frame of run_trading_cycle is gone: of it the
\* model keeps the mode it ended in and whether trading was found paused.
AfterCycle ==
    /\ mpc \in {"returned", "raised"}
    /\ daily_pnl' = IF mpc = "returned"
                    THEN ResetDailyIfNeeded(daily_pnl, today) ELSE daily_pnl
    /\ trades_today' = IF mpc = "returned"
                       THEN ResetTradesToday(daily_pnl, today, trades_today)
                       ELSE trades_today
    /\ mpc' = AfterCall(mpc, config.once)
    /\ sleep_left' = ScanInterval
    /\ paused_before' = (paused_before \/ Paused(cycle_log))
    /\ cycle_balance' = 0
    /\ strat' = 1
    /\ all_signals' = <<>>
    /\ sig_i' = 1
    /\ trades_executed' = 0
    /\ cycle_log' = <<>>
    /\ UNCHANGED <<config, running, cycle, scan_only, cycle_result>>
    /\ UNCHANGED <<today, open_positions, recorded, lastOp, cycleFrame>>

\* main, lines 413-416: one iteration of the sleep loop
SleepSecond ==
    /\ mpc = "sleep"
    /\ IF sleep_left = 0 \/ ~running
       THEN mpc' = "top" /\ UNCHANGED sleep_left
       ELSE sleep_left' = sleep_left - 1 /\ UNCHANGED mpc
    /\ UNCHANGED <<config, running, cycle, localVars, cycle_result,
                   paused_before>>
    /\ UNCHANGED <<riskVars, cycleFrame>>

\* main, lines 418-421: the final daily summary
FinalSummary ==
    /\ mpc = "final"
    /\ mpc' = "exit"
    /\ daily_pnl' = ResetDailyIfNeeded(daily_pnl, today)
    /\ trades_today' = ResetTradesToday(daily_pnl, today, trades_today)
    /\ UNCHANGED <<config, running, cycle, sleep_left, localVars,
                   cycle_result, paused_before>>
    /\ UNCHANGED <<today, open_positions, recorded, lastOp, cycleFrame>>

\* ------------------------------------------------------------ fetch-all
\* client.py: get_all_markets_for_series and get_all_positions, the loops
\* over get_markets and get_positions.  A cursor is None for the empty
\* string and <<k>> for the k-th cursor the server hands out.

Keys == {None} \cup {Some(k) : k \in 1..MaxCursor}
ItemLists == {<<>>, <<"a">>, <<"a", "b">>}

\* A server: to a request with cursor c (None: no cursor parameter) it
\* answers the page pages[c], its items and data.get("cursor", "").
Servers == [Keys -> [items : ItemLists, cursor : Keys]]

FetchOps == {"get_all_markets_for_series", "get_all_positions"}

\* A loop that keeps the last page only.
Extend_Replaces(all, items) == items

\* all_markets.extend(markets), all_positions.extend(positions)
Extend(all, items) == all \o items

fetchFrame == <<clientVars, riskVars, args, threadVars, orderVars, logVars,
               cycleVars>>

\* get_all_markets_for_series or get_all_positions is called: lines 233-234
\* and 344-345
FetchAll(op) ==
    /\ fa_pc = "idle"
    /\ fa_pc' = "loop"
    /\ fa_op' = op
    /\ all_items' = <<>>
    /\ cursor' = None
    /\ sent_cursors' = <<>>
    /\ UNCHANGED <<pages, fetchFrame>>

\* One iteration of the while True loop, lines 235-244 and 346-354: the
\* page request with the current cursor, extend, and the test of the new
\* cursor
FetchPage ==
    /\ fa_pc = "loop"
    /\ Len(sent_cursors) < MaxRequests
    /\ sent_cursors' = Append(sent_cursors, cursor)
    /\ all_items' = Extend(all_items, pages[cursor].items)
    /\ cursor' = pages[cursor].cursor
    /\ fa_pc' = IF Truthy(pages[cursor].cursor) THEN "loop" ELSE "returned"
    /\ UNCHANGED <<pages, fa_op, fetchFrame>>

\* ------------------------------------------------------- specifications
\* The rate limiter on its own: acquire called directly on either bucket.
InitLimiter ==
    /\ tokens = [b \in Buckets |-> Capacity(b)]
    /\ elapsed = [b \in Buckets |-> 0]
    /\ sleep_time = 0
    /\ slept = <<>>
    /\ polls = 0
    /\ acquired = [b \in Buckets |-> 0]
    /\ quiet = [b \in Buckets |-> TRUE]
    /\ pc = "idle"
    /\ caller = "direct"
    /\ cur = "read"
    /\ calls = 0
    /\ private_key = TRUE
    /\ method = "GET"
    /\ authenticated = FALSE
    /\ clock = 0
    /\ headers = PlainHeaders
    /\ nsigned = 0
    /\ attempt = 0
    /\ last_exception = "None"
    /\ sent = <<>>
    /\ result = NoResult
    /\ today = 0
    /\ daily_pnl = DailyPnL(0)
    /\ open_positions = NoPositions
    /\ trades_today = 0
    /\ recorded = 0
    /\ lastOp = NoOp
    /\ args = NoArgs
    /\ day_log = <<>>
    /\ seq_base = NoPositions
    /\ seq_from = 0
    /\ config = [scan_only |-> FALSE, once |-> FALSE, dry_run |-> TRUE]
    /\ running = TRUE
    /\ mpc = "top"
    /\ cycle = 0
    /\ sleep_left = 0
    /\ scan_only = FALSE
    /\ cycle_balance = 0
    /\ strat = 1
    /\ all_signals = <<>>
    /\ sig_i = 1
    /\ trades_executed = 0
    /\ cycle_result = NoCycleResult
    /\ cycle_log = <<>>
    /\ paused_before = FALSE
    /\ pages = <<>>
    /\ fa_pc = "idle"
    /\ fa_op = "none"
    /\ cursor = None
    /\ all_items = <<>>
    /\ sent_cursors = <<>>
    /\ t_pc = [t \in Threads |-> "idle"]
    /\ t_el = [t \in Threads |-> 0]
    /\ t_sleep = [t \in Threads |-> 0]
    /\ the_order = None
    /\ json_body = None
    /\ issued = 0

NextLimiter ==
    \/ \E b \in Buckets : Acquire(b)
    \/ Poll
    \/ Wake
    \/ \E d \in 1..TicksPerSecond : Tick(d)

SpecLimiter == InitLimiter /\ [][NextLimiter]_vars

\* acquire's loop and its sleep are the thread's own steps: they are taken.
FairSpecLimiter == SpecLimiter /\ WF_vars(Poll) /\ WF_vars(Wake)

\* The client: _request calls, each with its limiter acquire.  Within a call
\* time passes in the sleeps (an HTTP attempt itself takes no time here);
\* between calls either no time passes or a full second does.
Init ==
    /\ tokens = [b \in Buckets |-> Capacity(b)]
    /\ elapsed = [b \in Buckets |-> 0]
    /\ sleep_time = 0
    /\ slept = <<>>
    /\ polls = 0
    /\ acquired = [b \in Buckets |-> 0]
    /\ quiet = [b \in Buckets |-> TRUE]
    /\ pc = "idle"
    /\ caller = "_request"
    /\ cur = "read"
    /\ calls = 0
    /\ private_key \in BOOLEAN
    /\ method = "GET"
    /\ authenticated = FALSE
    /\ clock = 0
    /\ headers = PlainHeaders
    /\ nsigned = 0
    /\ attempt = 0
    /\ last_exception = "None"
    /\ sent = <<>>
    /\ result = NoResult
    /\ today = 0
    /\ daily_pnl = DailyPnL(0)
    /\ open_positions = NoPositions
    /\ trades_today = 0
    /\ recorded = 0
    /\ lastOp = NoOp
    /\ args = NoArgs
    /\ day_log = <<>>
    /\ seq_base = NoPositions
    /\ seq_from = 0
    /\ config = [scan_only |-> FALSE, once |-> FALSE, dry_run |-> TRUE]
    /\ running = TRUE
    /\ mpc = "top"
    /\ cycle = 0
    /\ sleep_left = 0
    /\ scan_only = FALSE
    /\ cycle_balance = 0
    /\ strat = 1
    /\ all_signals = <<>>
    /\ sig_i = 1
    /\ trades_executed = 0
    /\ cycle_result = NoCycleResult
    /\ cycle_log = <<>>
    /\ paused_before = FALSE
    /\ pages = <<>>
    /\ fa_pc = "idle"
    /\ fa_op = "none"
    /\ cursor = None
    /\ all_items = <<>>
    /\ sent_cursors = <<>>
    /\ t_pc = [t \in Threads |-> "idle"]
    /\ t_el = [t \in Threads |-> 0]
    /\ t_sleep = [t \in Threads |-> 0]
    /\ the_order = None
    /\ json_body = None
    /\ issued = 0

Next ==
    \/ \E m \in Methods, a \in BOOLEAN : Request(m, a)
    \/ Poll
    \/ Wake
    \/ BuildHeaders
    \/ \E o \in Outcomes : Send(o)
    \/ BackoffWake
    \/ Return
    \/ Tick(TicksPerSecond)

Spec == Init /\ [][Next]_vars

\* The risk manager on its own: its methods called in any order, on any day.
InitRisk ==
    /\ tokens = [b \in Buckets |-> Capacity(b)]
    /\ elapsed = [b \in Buckets |-> 0]
    /\ sleep_time = 0
    /\ slept = <<>>
    /\ polls = 0
    /\ acquired = [b \in Buckets |-> 0]
    /\ quiet = [b \in Buckets |-> TRUE]
    /\ pc = "idle"
    /\ caller = "direct"
    /\ cur = "read"
    /\ calls = 0
    /\ private_key = TRUE
    /\ method = "GET"
    /\ authenticated = FALSE
    /\ clock = 0
    /\ headers = PlainHeaders
    /\ nsigned = 0
    /\ attempt = 0
    /\ last_exception = "None"
    /\ sent = <<>>
    /\ result = NoResult
    /\ today = 0
    /\ daily_pnl = DailyPnL(0)
    /\ open_positions = NoPositions
    /\ trades_today = 0
    /\ recorded = 0
    /\ lastOp = NoOp
    /\ args = NoArgs
    /\ day_log = <<>>
    /\ seq_base = NoPositions
    /\ seq_from = 0
    /\ config = [scan_only |-> FALSE, once |-> FALSE, dry_run |-> TRUE]
    /\ running = TRUE
    /\ mpc = "top"
    /\ cycle = 0
    /\ sleep_left = 0
    /\ scan_only = FALSE
    /\ cycle_balance = 0
    /\ strat = 1
    /\ all_signals = <<>>
    /\ sig_i = 1
    /\ trades_executed = 0
    /\ cycle_result = NoCycleResult
    /\ cycle_log = <<>>
    /\ paused_before = FALSE
    /\ pages = <<>>
    /\ fa_pc = "idle"
    /\ fa_op = "none"
    /\ cursor = None
    /\ all_items = <<>>
    /\ sent_cursors = <<>>
    /\ t_pc = [t \in Threads |-> "idle"]
    /\ t_el = [t \in Threads |-> 0]
    /\ t_sleep = [t \in Threads |-> 0]
    /\ the_order = None
    /\ json_body = None
    /\ issued = 0

NextRisk ==
    /\ \/ \E sig \in Signals, bal \in Balances, mc \in MinConfidences,
            me \in MinEVs : ValidateTradeCall(sig, bal, mc, me)
       \/ \E t \in Tickers, cost \in Costs, pnl \in Pnls :
            RecordTrade(t, cost, pnl)
       \/ \E t \in Tickers, e \in Exposures : UpdatePosition(t, e)
       \/ GetDailySummary
       \/ NewDay
    /\ UNCHANGED <<logVars, cycleVars>>

SpecRisk == InitRisk /\ [][NextRisk]_vars

\* The ledger with its log: the calls that change the ledger or the
\* exposure, on any day.
InitLedger ==
    /\ tokens = [b \in Buckets |-> Capacity(b)]
    /\ elapsed = [b \in Buckets |-> 0]
    /\ sleep_time = 0
    /\ slept = <<>>
    /\ polls = 0
    /\ acquired = [b \in Buckets |-> 0]
    /\ quiet = [b \in Buckets |-> TRUE]
    /\ pc = "idle"
    /\ caller = "direct"
    /\ cur = "read"
    /\ calls = 0
    /\ private_key = TRUE
    /\ method = "GET"
    /\ authenticated = FALSE
    /\ clock = 0
    /\ headers = PlainHeaders
    /\ nsigned = 0
    /\ attempt = 0
    /\ last_exception = "None"
    /\ sent = <<>>
    /\ result = NoResult
    /\ today = 0
    /\ daily_pnl = DailyPnL(0)
    /\ open_positions = NoPositions
    /\ trades_today = 0
    /\ recorded = 0
    /\ lastOp = NoOp
    /\ args = NoArgs
    /\ day_log = <<>>
    /\ seq_base = NoPositions
    /\ seq_from = 0
    /\ config = [scan_only |-> FALSE, once |-> FALSE, dry_run |-> TRUE]
    /\ running = TRUE
    /\ mpc = "top"
    /\ cycle = 0
    /\ sleep_left = 0
    /\ scan_only = FALSE
    /\ cycle_balance = 0
    /\ strat = 1
    /\ all_signals = <<>>
    /\ sig_i = 1
    /\ trades_executed = 0
    /\ cycle_result = NoCycleResult
    /\ cycle_log = <<>>
    /\ paused_before = FALSE
    /\ pages = <<>>
    /\ fa_pc = "idle"
    /\ fa_op = "none"
    /\ cursor = None
    /\ all_items = <<>>
    /\ sent_cursors = <<>>
    /\ t_pc = [t \in Threads |-> "idle"]
    /\ t_el = [t \in Threads |-> 0]
    /\ t_sleep = [t \in Threads |-> 0]
    /\ the_order = None
    /\ json_body = None
    /\ issued = 0

NextLedger ==
    /\ \/ \E t \in Tickers, cost \in Costs, pnl \in Pnls :
            RecordTrade(t, cost, pnl) /\ LogTrade(t, cost, pnl)
       \/ \E e \in Exposures : UpdatePosition("T1", e) /\ LogUpdate
       \/ GetDailySummary /\ LogRoll
       \/ NewDay /\ UNCHANGED logVars
    /\ UNCHANGED cycleVars

SpecLedger == InitLedger /\ [][NextLedger]_vars

\* The sizing side of the risk manager: kelly_criterion,
\* calculate_position_size, build_order and to_api_payload on any input,
\* over ledgers and exposures that record_trade calls have built.
InitSizing ==
    /\ tokens = [b \in Buckets |-> Capacity(b)]
    /\ elapsed = [b \in Buckets |-> 0]
    /\ sleep_time = 0
    /\ slept = <<>>
    /\ polls = 0
    /\ acquired = [b \in Buckets |-> 0]
    /\ quiet = [b \in Buckets |-> TRUE]
    /\ pc = "idle"
    /\ caller = "direct"
    /\ cur = "read"
    /\ calls = 0
    /\ private_key = TRUE
    /\ method = "GET"
    /\ authenticated = FALSE
    /\ clock = 0
    /\ headers = PlainHeaders
    /\ nsigned = 0
    /\ attempt = 0
    /\ last_exception = "None"
    /\ sent = <<>>
    /\ result = NoResult
    /\ today = 0
    /\ daily_pnl = DailyPnL(0)
    /\ open_positions = NoPositions
    /\ trades_today = 0
    /\ recorded = 0
    /\ lastOp = NoOp
    /\ args \in KellyArgs \cup SizingArgs \cup OrderArgs
    /\ day_log = <<>>
    /\ seq_base = NoPositions
    /\ seq_from = 0
    /\ config = [scan_only |-> FALSE, once |-> FALSE, dry_run |-> TRUE]
    /\ running = TRUE
    /\ mpc = "top"
    /\ cycle = 0
    /\ sleep_left = 0
    /\ scan_only = FALSE
    /\ cycle_balance = 0
    /\ strat = 1
    /\ all_signals = <<>>
    /\ sig_i = 1
    /\ trades_executed = 0
    /\ cycle_result = NoCycleResult
    /\ cycle_log = <<>>
    /\ paused_before = FALSE
    /\ pages = <<>>
    /\ fa_pc = "idle"
    /\ fa_op = "none"
    /\ cursor = None
    /\ all_items = <<>>
    /\ sent_cursors = <<>>
    /\ t_pc = [t \in Threads |-> "idle"]
    /\ t_el = [t \in Threads |-> 0]
    /\ t_sleep = [t \in Threads |-> 0]
    /\ the_order = None
    /\ json_body = None
    /\ issued = 0

NextSizing ==
    /\ \/ KellyCriterion
       \/ CalculatePositionSize
       \/ BuildOrder
       \/ \E id \in ClientOrderIds : ToApiPayload(id)
       \/ \E cost \in Costs, pnl \in LossPnls : RecordTrade("T1", cost, pnl)
       \/ NewDay
    /\ UNCHANGED <<logVars, cycleVars>>

SpecSizing == InitSizing /\ [][NextSizing]_vars

\* Every RiskManager method that reads or writes the ledger, with the date
\* changing in between: the four that call _reset_daily_if_needed
\* (validate_trade, calculate_position_size, record_trade,
\* get_daily_summary) and update_position, which does not.
RolloverArgs ==
    {a \in SizingArgs : a.balance = 100 /\ a.cost_per_contract_cents = 50}

InitRollover ==
    /\ tokens = [b \in Buckets |-> Capacity(b)]
    /\ elapsed = [b \in Buckets |-> 0]
    /\ sleep_time = 0
    /\ slept = <<>>
    /\ polls = 0
    /\ acquired = [b \in Buckets |-> 0]
    /\ quiet = [b \in Buckets |-> TRUE]
    /\ pc = "idle"
    /\ caller = "direct"
    /\ cur = "read"
    /\ calls = 0
    /\ private_key = TRUE
    /\ method = "GET"
    /\ authenticated = FALSE
    /\ clock = 0
    /\ headers = PlainHeaders
    /\ nsigned = 0
    /\ attempt = 0
    /\ last_exception = "None"
    /\ sent = <<>>
    /\ result = NoResult
    /\ today = 0
    /\ daily_pnl = DailyPnL(0)
    /\ open_positions = NoPositions
    /\ trades_today = 0
    /\ recorded = 0
    /\ lastOp = NoOp
    /\ args \in RolloverArgs
    /\ day_log = <<>>
    /\ seq_base = NoPositions
    /\ seq_from = 0
    /\ config = [scan_only |-> FALSE, once |-> FALSE, dry_run |-> TRUE]
    /\ running = TRUE
    /\ mpc = "top"
    /\ cycle = 0
    /\ sleep_left = 0
    /\ scan_only = FALSE
    /\ cycle_balance = 0
    /\ strat = 1
    /\ all_signals = <<>>
    /\ sig_i = 1
    /\ trades_executed = 0
    /\ cycle_result = NoCycleResult
    /\ cycle_log = <<>>
    /\ paused_before = FALSE
    /\ pages = <<>>
    /\ fa_pc = "idle"
    /\ fa_op = "none"
    /\ cursor = None
    /\ all_items = <<>>
    /\ sent_cursors = <<>>
    /\ t_pc = [t \in Threads |-> "idle"]
    /\ t_el = [t \in Threads |-> 0]
    /\ t_sleep = [t \in Threads |-> 0]
    /\ the_order = None
    /\ json_body = None
    /\ issued = 0

NextRollover ==
    /\ \/ \E sig \in Signals, mc \in MinConfidences, me \in MinEVs :
            ValidateTradeCall(sig, 100, mc, me)
       \/ CalculatePositionSize
       \/ \E pnl \in Pnls : RecordTrade("T1", 10, pnl)
       \/ GetDailySummary
       \/ UpdatePosition("T1", 20)
       \/ NewDay
    /\ UNCHANGED <<logVars, cycleVars>>

SpecRollover == InitRollover /\ [][NextRollover]_vars

\* Every method of RiskManager that the orchestrator or a caller can use on
\* the ledger and the exposure map, build_order included.
ManagerArgs ==
    RolloverArgs
    \cup {a \in OrderArgs : /\ a.balance = 100
                            /\ a.signal.market_probability = 500
                            /\ a.signal.estimated_probability = 70
                            /\ a.signal.suggested_price \in {None, Some(100)}}

InitManager ==
    /\ tokens = [b \in Buckets |-> Capacity(b)]
    /\ elapsed = [b \in Buckets |-> 0]
    /\ sleep_time = 0
    /\ slept = <<>>
    /\ polls = 0
    /\ acquired = [b \in Buckets |-> 0]
    /\ quiet = [b \in Buckets |-> TRUE]
    /\ pc = "idle"
    /\ caller = "direct"
    /\ cur = "read"
    /\ calls = 0
    /\ private_key = TRUE
    /\ method = "GET"
    /\ authenticated = FALSE
    /\ clock = 0
    /\ headers = PlainHeaders
    /\ nsigned = 0
    /\ attempt = 0
    /\ last_exception = "None"
    /\ sent = <<>>
    /\ result = NoResult
    /\ today = 0
    /\ daily_pnl = DailyPnL(0)
    /\ open_positions = NoPositions
    /\ trades_today = 0
    /\ recorded = 0
    /\ lastOp = NoOp
    /\ args \in ManagerArgs
    /\ day_log = <<>>
    /\ seq_base = NoPositions
    /\ seq_from = 0
    /\ config = [scan_only |-> FALSE, once |-> FALSE, dry_run |-> TRUE]
    /\ running = TRUE
    /\ mpc = "top"
    /\ cycle = 0
    /\ sleep_left = 0
    /\ scan_only = FALSE
    /\ cycle_balance = 0
    /\ strat = 1
    /\ all_signals = <<>>
    /\ sig_i = 1
    /\ trades_executed = 0
    /\ cycle_result = NoCycleResult
    /\ cycle_log = <<>>
    /\ paused_before = FALSE
    /\ pages = <<>>
    /\ fa_pc = "idle"
    /\ fa_op = "none"
    /\ cursor = None
    /\ all_items = <<>>
    /\ sent_cursors = <<>>
    /\ t_pc = [t \in Threads |-> "idle"]
    /\ t_el = [t \in Threads |-> 0]
    /\ t_sleep = [t \in Threads |-> 0]
    /\ the_order = None
    /\ json_body = None
    /\ issued = 0

NextManager ==
    /\ \/ \E sig \in Signals, mc \in MinConfidences, me \in MinEVs :
            ValidateTradeCall(sig, 100, mc, me)
       \/ CalculatePositionSize
       \/ BuildOrder
       \/ \E pnl \in Pnls : RecordTrade("T1", 10, pnl)
       \/ GetDailySummary
       \/ \E e \in Exposures : UpdatePosition("T1", e)
       \/ NewDay
    /\ UNCHANGED <<logVars, cycleVars>>

SpecManager == InitManager /\ [][NextManager]_vars

\* The bot: main's loop around run_trading_cycle, with the exchange, the
\* strategies and the operator's signal doing what they may, on any day.
InitCycle ==
    /\ tokens = [b \in Buckets |-> Capacity(b)]
    /\ elapsed = [b \in Buckets |-> 0]
    /\ sleep_time = 0
    /\ slept = <<>>
    /\ polls = 0
    /\ acquired = [b \in Buckets |-> 0]
    /\ quiet = [b \in Buckets |-> TRUE]
    /\ pc = "idle"
    /\ caller = "direct"
    /\ cur = "read"
    /\ calls = 0
    /\ private_key = TRUE
    /\ method = "GET"
    /\ authenticated = FALSE
    /\ clock = 0
    /\ headers = PlainHeaders
    /\ nsigned = 0
    /\ attempt = 0
    /\ last_exception = "None"
    /\ sent = <<>>
    /\ result = NoResult
    /\ today = 0
    /\ daily_pnl = DailyPnL(0)
    /\ open_positions = NoPositions
    /\ trades_today = 0
    /\ recorded = 0
    /\ lastOp = NoOp
    /\ args = NoArgs
    /\ day_log = <<>>
    /\ seq_base = NoPositions
    /\ seq_from = 0
    /\ config \in [scan_only : BOOLEAN, once : BOOLEAN, dry_run : BOOLEAN]
    /\ running = TRUE
    /\ mpc = "top"
    /\ cycle = 0
    /\ sleep_left = 0
    /\ scan_only = FALSE
    /\ cycle_balance = 0
    /\ strat = 1
    /\ all_signals = <<>>
    /\ sig_i = 1
    /\ trades_executed = 0
    /\ cycle_result = NoCycleResult
    /\ cycle_log = <<>>
    /\ paused_before = FALSE
    /\ pages = <<>>
    /\ fa_pc = "idle"
    /\ fa_op = "none"
    /\ cursor = None
    /\ all_items = <<>>
    /\ sent_cursors = <<>>
    /\ t_pc = [t \in Threads |-> "idle"]
    /\ t_el = [t \in Threads |-> 0]
    /\ t_sleep = [t \in Threads |-> 0]
    /\ the_order = None
    /\ json_body = None
    /\ issued = 0

NextCycle ==
    \/ SignalHandler
    \/ \E in_hours \in BOOLEAN : LoopTop(in_hours)
    \/ OffHoursWake
    \/ LoopExit
    \/ \E o \in StatusOutcomes : CheckStatus(o)
    \/ \E o \in BalanceOutcomes : FetchBalance(o)
    \/ \E r \in Runs("weather") \cup Runs("economic") : RunStrategy(r)
    \/ SortSignals
    \/ \E o \in OrderOutcomes, b \in BalanceOutcomes : ProcessSignal(o, b)
    \/ ReturnTrades
    \/ AfterCycle
    \/ SleepSecond
    \/ FinalSummary

SpecCycle == InitCycle /\ [][NextCycle]_vars

\* The main loop of a bot that runs over several UTC days, live or in
\* dry-run mode.  The date is read only by the RiskManager calls of the
\* signal loop and by the daily summaries, so a change of date at any other
\* point of the loop is the same as one just before the next of these.
\* No stop signal arrives and every iteration falls in trading hours.
InitDays ==
    /\ tokens = [b \in Buckets |-> Capacity(b)]
    /\ elapsed = [b \in Buckets |-> 0]
    /\ sleep_time = 0
    /\ slept = <<>>
    /\ polls = 0
    /\ acquired = [b \in Buckets |-> 0]
    /\ quiet = [b \in Buckets |-> TRUE]
    /\ pc = "idle"
    /\ caller = "direct"
    /\ cur = "read"
    /\ calls = 0
    /\ private_key = TRUE
    /\ method = "GET"
    /\ authenticated = FALSE
    /\ clock = 0
    /\ headers = PlainHeaders
    /\ nsigned = 0
    /\ attempt = 0
    /\ last_exception = "None"
    /\ sent = <<>>
    /\ result = NoResult
    /\ today = 0
    /\ daily_pnl = DailyPnL(0)
    /\ open_positions = NoPositions
    /\ trades_today = 0
    /\ recorded = 0
    /\ lastOp = NoOp
    /\ args = NoArgs
    /\ day_log = <<>>
    /\ seq_base = NoPositions
    /\ seq_from = 0
    /\ config \in [scan_only : {FALSE}, once : {FALSE}, dry_run : BOOLEAN]
    /\ running = TRUE
    /\ mpc = "top"
    /\ cycle = 0
    /\ sleep_left = 0
    /\ scan_only = FALSE
    /\ cycle_balance = 0
    /\ strat = 1
    /\ all_signals = <<>>
    /\ sig_i = 1
    /\ trades_executed = 0
    /\ cycle_result = NoCycleResult
    /\ cycle_log = <<>>
    /\ paused_before = FALSE
    /\ pages = <<>>
    /\ fa_pc = "idle"
    /\ fa_op = "none"
    /\ cursor = None
    /\ all_items = <<>>
    /\ sent_cursors = <<>>
    /\ t_pc = [t \in Threads |-> "idle"]
    /\ t_el = [t \in Threads |-> 0]
    /\ t_sleep = [t \in Threads |-> 0]
    /\ the_order = None
    /\ json_body = None
    /\ issued = 0

NextDays ==
    \/ LoopTop(TRUE)
    \/ \E o \in StatusOutcomes : CheckStatus(o)
    \/ \E o \in BalanceOutcomes : FetchBalance(o)
    \/ \E r \in Runs("weather") \cup Runs("economic") : RunStrategy(r)
    \/ SortSignals
    \/ \E o \in OrderOutcomes, b \in BalanceOutcomes : ProcessSignal(o, b)
    \/ ReturnTrades
    \/ AfterCycle
    \/ SleepSecond
    \/ /\ mpc \in {"signals", "returned"}
       /\ NewDay
       /\ UNCHANGED <<logVars, cycleVars>>

SpecDays == InitDays /\ [][NextDays]_vars

\* A fetch-all call against any server of the bounds.
InitFetch ==
    /\ tokens = [b \in Buckets |-> Capacity(b)]
    /\ elapsed = [b \in Buckets |-> 0]
    /\ sleep_time = 0
    /\ slept = <<>>
    /\ polls = 0
    /\ acquired = [b \in Buckets |-> 0]
    /\ quiet = [b \in Buckets |-> TRUE]
    /\ pc = "idle"
    /\ caller = "direct"
    /\ cur = "read"
    /\ calls = 0
    /\ private_key = TRUE
    /\ method = "GET"
    /\ authenticated = FALSE
    /\ clock = 0
    /\ headers = PlainHeaders
    /\ nsigned = 0
    /\ attempt = 0
    /\ last_exception = "None"
    /\ sent = <<>>
    /\ result = NoResult
    /\ today = 0
    /\ daily_pnl = DailyPnL(0)
    /\ open_positions = NoPositions
    /\ trades_today = 0
    /\ recorded = 0
    /\ lastOp = NoOp
    /\ args = NoArgs
    /\ day_log = <<>>
    /\ seq_base = NoPositions
    /\ seq_from = 0
    /\ config = [scan_only |-> FALSE, once |-> FALSE, dry_run |-> TRUE]
    /\ running = TRUE
    /\ mpc = "top"
    /\ cycle = 0
    /\ sleep_left = 0
    /\ scan_only = FALSE
    /\ cycle_balance = 0
    /\ strat = 1
    /\ all_signals = <<>>
    /\ sig_i = 1
    /\ trades_executed = 0
    /\ cycle_result = NoCycleResult
    /\ cycle_log = <<>>
    /\ paused_before = FALSE
    /\ pages \in Servers
    /\ fa_pc = "idle"
    /\ fa_op = "none"
    /\ cursor = None
    /\ all_items = <<>>
    /\ sent_cursors = <<>>
    /\ t_pc = [t \in Threads |-> "idle"]
    /\ t_el = [t \in Threads |-> 0]
    /\ t_sleep = [t \in Threads |-> 0]
    /\ the_order = None
    /\ json_body = None
    /\ issued = 0

NextFetch ==
    \/ \E op \in FetchOps : FetchAll(op)
    \/ FetchPage

SpecFetch == InitFetch /\ [][NextFetch]_vars

\* ---------------------------------------------- acquire, several threads
\* RateLimiter.acquire takes no lock.  Each thread runs the statements of
\* lines 42-51 in order; any thread may run between two statements of
\* another.  (A statement is taken as one step; the interpreter may switch
\* threads inside a statement as well, which only adds interleavings.)

\* The bucket the threads share: KalshiClient._write_limiter.
SharedBucket == "write"

\* What the threads leave alone.
threadFrame == <<pc, caller, cur, sleep_time, slept, polls, quiet, private_key,
                 method, authenticated, headers, nsigned, attempt,
                 last_exception, sent, result,
                 riskVars, args, fetchVars, orderVars, logVars, cycleVars>>

\* Threads between line 42 and the return or the sleep: the clock does not
\* tick while a thread is there (a statement takes far less than a tick).
Running(t) == t_pc[t] \notin {"idle", "sleeping"}

\* A thread calls acquire.
ThreadCall(t) ==
    /\ UNCHANGED threadFrame
    /\ t_pc[t] = "idle"
    /\ calls < MaxCalls
    /\ calls' = calls + 1
    /\ t_pc' = [t_pc EXCEPT ![t] = "now"]
    /\ UNCHANGED <<tokens, elapsed, acquired, clock, t_el, t_sleep>>

\* acquire, lines 42-43: now = time.monotonic(); elapsed = now - last_refill
ThreadReadClock(t) ==
    /\ UNCHANGED threadFrame
    /\ t_pc[t] = "now"
    /\ t_el' = [t_el EXCEPT ![t] = elapsed[SharedBucket]]
    /\ t_pc' = [t_pc EXCEPT ![t] = "refill"]
    /\ UNCHANGED <<tokens, elapsed, acquired, clock, calls, t_sleep>>

\* acquire, line 44: self.tokens = min(max_per_second, self.tokens + ...)
ThreadRefill(t) ==
    /\ UNCHANGED threadFrame
    /\ t_pc[t] = "refill"
    /\ tokens' = [tokens EXCEPT
                    ![SharedBucket] = Refill(SharedBucket, @, t_el[t])]
    /\ t_pc' = [t_pc EXCEPT ![t] = "stamp"]
    /\ UNCHANGED <<elapsed, acquired, clock, calls, t_el, t_sleep>>

\* acquire, line 45: self.last_refill = now
ThreadStamp(t) ==
    /\ UNCHANGED threadFrame
    /\ t_pc[t] = "stamp"
    /\ elapsed' = [elapsed EXCEPT ![SharedBucket] = 0]
    /\ t_pc' = [t_pc EXCEPT ![t] = "test"]
    /\ UNCHANGED <<tokens, acquired, clock, calls, t_el, t_sleep>>

\* acquire, line 47: if self.tokens >= 1
ThreadTest(t) ==
    /\ UNCHANGED threadFrame
    /\ t_pc[t] = "test"
    /\ t_pc' = [t_pc EXCEPT ![t] = IF HasToken(tokens[SharedBucket])
                                   THEN "take" ELSE "wait"]
    /\ UNCHANGED <<tokens, elapsed, acquired, clock, calls, t_el, t_sleep>>

\* acquire, lines 48-49: self.tokens -= 1; return
ThreadTake(t) ==
    /\ UNCHANGED threadFrame
    /\ t_pc[t] = "take"
    /\ tokens' = [tokens EXCEPT ![SharedBucket] = @ - Token]
    /\ acquired' = [acquired EXCEPT ![SharedBucket] = @ + 1]
    /\ t_pc' = [t_pc EXCEPT ![t] = "idle"]
    /\ UNCHANGED <<elapsed, clock, calls, t_el, t_sleep>>

\* acquire, lines 50-51: sleep_time = (1 - self.tokens) / max_per_second;
\* time.sleep(sleep_time) is entered.
ThreadWait(t) ==
    /\ UNCHANGED threadFrame
    /\ t_pc[t] = "wait"
    /\ t_sleep' = [t_sleep EXCEPT
                     ![t] = SleepTime(SharedBucket, tokens[SharedBucket])]
    /\ t_pc' = [t_pc EXCEPT ![t] = "sleeping"]
    /\ UNCHANGED <<tokens, elapsed, acquired, clock, calls, t_el>>

\* acquire, line 51: time.sleep returns, no earlier than asked; the loop
\* goes round.
ThreadWake(t) ==
    /\ UNCHANGED threadFrame
    /\ t_pc[t] = "sleeping"
    /\ t_sleep[t] = 0
    /\ t_pc' = [t_pc EXCEPT ![t] = "now"]
    /\ UNCHANGED <<tokens, elapsed, acquired, clock, calls, t_el, t_sleep>>

\* One tick of time passes for every thread.
ThreadTick ==
    /\ UNCHANGED threadFrame
    /\ \A t \in Threads : ~Running(t)
    /\ clock < TicksPerSecond
    /\ clock' = clock + 1
    /\ elapsed' = Advance(elapsed, 1)
    /\ t_sleep' = [t \in Threads |-> IF t_sleep[t] > 0 THEN t_sleep[t] - 1
                                     ELSE 0]
    /\ UNCHANGED <<tokens, acquired, calls, t_pc, t_el>>

\* A fresh client whose write limiter is shared by the threads.
InitThreads ==
    /\ tokens = [b \in Buckets |-> Capacity(b)]
    /\ elapsed = [b \in Buckets |-> 0]
    /\ sleep_time = 0
    /\ slept = <<>>
    /\ polls = 0
    /\ acquired = [b \in Buckets |-> 0]
    /\ quiet = [b \in Buckets |-> TRUE]
    /\ pc = "idle"
    /\ caller = "direct"
    /\ cur = "read"
    /\ calls = 0
    /\ private_key = TRUE
    /\ method = "GET"
    /\ authenticated = FALSE
    /\ clock = 0
    /\ headers = PlainHeaders
    /\ nsigned = 0
    /\ attempt = 0
    /\ last_exception = "None"
    /\ sent = <<>>
    /\ result = NoResult
    /\ today = 0
    /\ daily_pnl = DailyPnL(0)
    /\ open_positions = NoPositions
    /\ trades_today = 0
    /\ recorded = 0
    /\ lastOp = NoOp
    /\ args = NoArgs
    /\ day_log = <<>>
    /\ seq_base = NoPositions
    /\ seq_from = 0
    /\ config = [scan_only |-> FALSE, once |-> FALSE, dry_run |-> TRUE]
    /\ running = TRUE
    /\ mpc = "top"
    /\ cycle = 0
    /\ sleep_left = 0
    /\ scan_only = FALSE
    /\ cycle_balance = 0
    /\ strat = 1
    /\ all_signals = <<>>
    /\ sig_i = 1
    /\ trades_executed = 0
    /\ cycle_result = NoCycleResult
    /\ cycle_log = <<>>
    /\ paused_before = FALSE
    /\ pages = <<>>
    /\ fa_pc = "idle"
    /\ fa_op = "none"
    /\ cursor = None
    /\ all_items = <<>>
    /\ sent_cursors = <<>>
    /\ t_pc = [t \in Threads |-> "idle"]
    /\ t_el = [t \in Threads |-> 0]
    /\ t_sleep = [t \in Threads |-> 0]
    /\ the_order = None
    /\ json_body = None
    /\ issued = 0

NextThreads ==
    \/ \E t \in Threads : ThreadCall(t)
    \/ \E t \in Threads : ThreadReadClock(t)
    \/ \E t \in Threads : ThreadRefill(t)
    \/ \E t \in Threads : ThreadStamp(t)
    \/ \E t \in Threads : ThreadTest(t)
    \/ \E t \in Threads : ThreadTake(t)
    \/ \E t \in Threads : ThreadWait(t)
    \/ \E t \in Threads : ThreadWake(t)
    \/ ThreadTick

SpecThreads == InitThreads /\ [][NextThreads]_vars

\* ------------------------------------------------------------ create_order
\* uuid.uuid4(): the value of the n-th call; no two calls give the same.
UuidNames == <<"uuid-1", "uuid-2", "uuid-3", "uuid-4", "uuid-5">>

\* The orders a caller passes: without a client order id, as build_order
\* makes them, or with one of the caller's own.
NewOrders ==
    {[OrderRequest(sig, 1) EXCEPT !.client_order_id = id] :
        sig \in {s \in OrderSignals : /\ s.suggested_price = Some(50)
                                      /\ s.estimated_probability = 70
                                      /\ s.market_probability = 500},
        id \in {"", "given"}}

\* A create_order that never assigns an id.
WithClientOrderId_Never(order, uuid) == order

\* create_order, lines 363-364: an order without a client order id gets one
WithClientOrderId(order, uuid) ==
    IF order.client_order_id = ""
    THEN [order EXCEPT !.client_order_id = uuid]
    ELSE order

\* create_order, lines 361-369, down to the entry of _request (lines
\* 114-121): the order object gets its id, the payload is built from it
\* once and passed as json_body of a POST.  The caller passes a new order or
\* the object it passed before.
CreateOrder(order) ==
    /\ UNCHANGED <<riskVars, args, fetchVars, threadVars, logVars, cycleVars>>
    /\ pc = "idle"
    /\ calls < MaxCalls
    /\ issued < Len(UuidNames)
    /\ calls' = calls + 1
    /\ the_order' = Some(WithClientOrderId(order, UuidNames[issued + 1]))
    /\ issued' = IF order.client_order_id = "" THEN issued + 1 ELSE issued
    /\ json_body' =
         Some(to_api_payload(WithClientOrderId(order, UuidNames[issued + 1])))
    /\ method' = "POST"
    /\ authenticated' = TRUE
    /\ caller' = "_request"
    /\ cur' = IF IsWrite("POST") THEN "write" ELSE "read"
    /\ pc' = "acquire"
    /\ slept' = <<>>
    /\ polls' = 0
    /\ clock' = 0
    /\ headers' = PlainHeaders
    /\ nsigned' = 0
    /\ attempt' = 0
    /\ last_exception' = "None"
    /\ sent' = <<>>
    /\ result' = NoResult
    /\ UNCHANGED <<tokens, elapsed, sleep_time, acquired, quiet, private_key>>

\* A client whose caller submits orders.
InitOrder ==
    /\ tokens = [b \in Buckets |-> Capacity(b)]
    /\ elapsed = [b \in Buckets |-> 0]
    /\ sleep_time = 0
    /\ slept = <<>>
    /\ polls = 0
    /\ acquired = [b \in Buckets |-> 0]
    /\ quiet = [b \in Buckets |-> TRUE]
    /\ pc = "idle"
    /\ caller = "_request"
    /\ cur = "read"
    /\ calls = 0
    /\ private_key = TRUE
    /\ method = "GET"
    /\ authenticated = FALSE
    /\ clock = 0
    /\ headers = PlainHeaders
    /\ nsigned = 0
    /\ attempt = 0
    /\ last_exception = "None"
    /\ sent = <<>>
    /\ result = NoResult
    /\ today = 0
    /\ daily_pnl = DailyPnL(0)
    /\ open_positions = NoPositions
    /\ trades_today = 0
    /\ recorded = 0
    /\ lastOp = NoOp
    /\ args = NoArgs
    /\ day_log = <<>>
    /\ seq_base = NoPositions
    /\ seq_from = 0
    /\ config = [scan_only |-> FALSE, once |-> FALSE, dry_run |-> TRUE]
    /\ running = TRUE
    /\ mpc = "top"
    /\ cycle = 0
    /\ sleep_left = 0
    /\ scan_only = FALSE
    /\ cycle_balance = 0
    /\ strat = 1
    /\ all_signals = <<>>
    /\ sig_i = 1
    /\ trades_executed = 0
    /\ cycle_result = NoCycleResult
    /\ cycle_log = <<>>
    /\ paused_before = FALSE
    /\ pages = <<>>
    /\ fa_pc = "idle"
    /\ fa_op = "none"
    /\ cursor = None
    /\ all_items = <<>>
    /\ sent_cursors = <<>>
    /\ t_pc = [t \in Threads |-> "idle"]
    /\ t_el = [t \in Threads |-> 0]
    /\ t_sleep = [t \in Threads |-> 0]
    /\ the_order = None
    /\ json_body = None
    /\ issued = 0

NextOrder ==
    \/ \E order \in NewOrders \cup {the_order[k] : k \in 1..Len(the_order)} :
          CreateOrder(order)
    \/ Poll
    \/ Wake
    \/ BuildHeaders
    \/ \E o \in Outcomes : Send(o)
    \/ BackoffWake
    \/ Return
    \/ Tick(TicksPerSecond)

SpecOrder == InitOrder /\ [][NextOrder]_vars

\* ------------------------------------------------------- claims C1 - C8
\* The outcome of attempt i of the current call ended in HTTP 429 or in a
\* connection/timeout error.
EndedRetryable(i) ==
    \/ sent[i].outcome.kind \in Errors
    \/ sent[i].outcome.kind = "response" /\ sent[i].outcome.status = 429

Finished == pc \in {"done", "idle"}

\* C1: a _request call issues at most 3 HTTP attempts, and an attempt is
\* followed by another only when it ended in 429 or in a connection or
\* timeout error.
C1_AtMostThreeAttempts ==
    /\ Len(sent) <= 3
    /\ \A i \in 1..Len(sent) : i < Len(sent) => EndedRetryable(i)

\* A call that used all three attempts.
C1_Witness == pc = "done" /\ Len(sent) = 3

\* C2: an attempt that returns a status >= 400 other than 429 is the last
\* one: the call has failed with a KalshiAPIError carrying that status,
\* and no sleep was started after the attempt.
C2_ErrorStatusFailsAtOnce ==
    \A i \in 1..Len(sent) :
        LET o == sent[i].outcome IN
        (o.kind = "response" /\ o.status >= 400 /\ o.status # 429) =>
            /\ i = Len(sent)
            /\ Finished
            /\ result.kind = "KalshiAPIError"
            /\ result.status_code = o.status
            /\ Len(slept) = sent[i].after

\* A call whose third attempt returned 500, after two retries.
C2_Witness ==
    /\ pc = "done"
    /\ Len(sent) = 3
    /\ sent[3].outcome.status = 500
    /\ result.status_code = 500

\* C3: no two attempts of one authenticated call send the same timestamp
\* or the same signature.
C3_FreshHeadersPerAttempt ==
    \A i, j \in 1..Len(sent) :
        (i < j /\ sent[i].headers.auth) =>
            /\ sent[j].headers.timestamp # sent[i].headers.timestamp
            /\ sent[j].headers.signature # sent[i].headers.signature

\* The attempts of the current call were 429, 429, 200.
TwoRetriesThenOk ==
    /\ Len(sent) = 3
    /\ sent[1].outcome.status = 429
    /\ sent[2].outcome.status = 429
    /\ sent[3].outcome.status = 200

TwoBackoffs ==
    <<Sleep("backoff", base_backoff), Sleep("backoff", 2 * base_backoff)>>

\* C4 as stated: after 429, 429, 200 the call has succeeded with the third
\* response's payload and the call's only sleeps are the two backoffs.
C4_OnlySleepsAreBackoffs ==
    TwoRetriesThenOk =>
        /\ Finished
        /\ result.kind = "value"
        /\ result.body = sent[3].outcome.body
        /\ slept = TwoBackoffs

\* C4, amended: after 429, 429, 200 the call has succeeded with the third
\* response's payload; the sleeps from the first attempt on are the two
\* backoffs base and 2 * base, and any sleep before the first attempt is a
\* wait of the rate limiter.
C4_BackoffsBetweenAttempts ==
    TwoRetriesThenOk =>
        /\ Finished
        /\ result.kind = "value"
        /\ result.body = sent[3].outcome.body
        /\ SubSeq(slept, sent[1].after + 1, Len(slept)) = TwoBackoffs
        /\ \A k \in 1..sent[1].after : slept[k].by = "acquire"

\* A 429, 429, 200 call that also waited for the limiter.
C4_Witness ==
    /\ TwoRetriesThenOk
    /\ pc = "done"
    /\ sent[1].after > 0

\* The connection/timeout errors among the attempts of the current call.
ErrorAttempts == {i \in 1..Len(sent) : sent[i].outcome.kind \in Errors}

LastErrorAttempt == CHOOSE i \in ErrorAttempts : \A j \in ErrorAttempts : j <= i

\* C5: when all 3 attempts ended in 429 or in connection/timeout errors,
\* the call returns no value: it raises the last connection/timeout error
\* of the call, or, with three 429s, KalshiAPIError(0, "Max retries
\* exceeded").
C5_ExhaustionRaises ==
    (Len(sent) = 3 /\ \A i \in 1..3 : EndedRetryable(i)) =>
        /\ result.kind # "value"
        /\ Finished =>
             IF ErrorAttempts # {}
             THEN result.kind = sent[LastErrorAttempt].outcome.kind
             ELSE /\ result.kind = "KalshiAPIError"
                  /\ result.status_code = 0
                  /\ result.body = "Max retries exceeded"

\* An exhausted call whose last attempt was a 429 and which raised the
\* timeout captured before it.
C5_Witness ==
    /\ pc = "done"
    /\ Len(sent) = 3
    /\ sent[1].outcome.kind = "ConnectionError"
    /\ sent[2].outcome.kind = "Timeout"
    /\ sent[3].outcome.status = 429
    /\ result.kind = "Timeout"

\* C6: every bucket's token count stays within 0 and its capacity.
C6_TokensWithinCapacity ==
    \A b \in Buckets : 0 <= tokens[b] /\ tokens[b] <= Capacity(b)

\* A bucket that was emptied, refilled to the cap, and used again.
C6_Witness ==
    \E b \in Buckets :
        /\ acquired[b] > max_per_second(b)
        /\ tokens[b] = Capacity(b) - Token
        /\ pc = "idle"

\* C7: with no time passing outside acquire, each of the first N acquire
\* calls on a full bucket of capacity N returns without sleeping, and the
\* (N+1)th sleeps once, for 1/max_per_second seconds, before it returns.
C7_BurstThenWait ==
    \A b \in Buckets :
        (pc = "idle" /\ cur = b /\ quiet[b] /\ acquired[b] >= 1) =>
            /\ acquired[b] <= max_per_second(b) => slept = <<>>
            /\ acquired[b] = max_per_second(b) + 1 =>
                 /\ Len(slept) = 1
                 /\ slept[1].by = "acquire"
                 /\ slept[1].ticks * max_per_second(b) = TicksPerSecond

\* The (N+1)th acquire on the read bucket has returned, no time having
\* passed but for its own sleep.
C7_Witness ==
    /\ pc = "idle"
    /\ cur = "read"
    /\ quiet["read"]
    /\ acquired["read"] = max_per_second("read") + 1

\* C8: every acquire call returns; a call that finds less than one token
\* asks for a sleep of (1 - tokens) / max_per_second and has its token at
\* the next poll, so no call polls more than twice.
C8_AcquireReturns ==
    /\ [](polls <= 2)
    /\ [](pc = "sleeping" =>
            sleep_time * max_per_second(cur) = Token - tokens[cur])
    /\ (pc # "idle") ~> (pc = "idle")

\* A call that found the bucket short, slept, and returned.
C8_Witness == pc = "idle" /\ polls = 2 /\ Len(slept) = 1

\* ------------------------------------------------------ claims C9 - C10
\* What a step that changes the ledger's date does.
RolloverStep ==
    daily_pnl'.date # daily_pnl.date =>
        /\ daily_pnl'.date = today
        /\ IF lastOp'.name = "record_trade"
           THEN \* the rollover, then the one trade this call records
                /\ daily_pnl'.trades_count = 1
                /\ daily_pnl'.realized_pnl = lastOp'.pnl
                /\ daily_pnl'.wins = (IF lastOp'.pnl > 0 THEN 1 ELSE 0)
                /\ daily_pnl'.losses = (IF lastOp'.pnl < 0 THEN 1 ELSE 0)
                /\ \A t \in Tickers :
                     Get(open_positions', t) =
                        Get(open_positions, t)
                        + (IF t = lastOp'.ticker THEN lastOp'.amount ELSE 0)
           ELSE /\ daily_pnl'.trades_count = 0
                /\ daily_pnl'.realized_pnl = 0
                /\ daily_pnl'.wins = 0
                /\ daily_pnl'.losses = 0
                /\ open_positions' = open_positions

\* C9: a day rollover sets realized P&L, trade count, win count and loss
\* count to 0 and the ledger date to the current UTC date, and leaves
\* every ticker's tracked exposure as it was (a record_trade call that
\* rolls the ledger then adds its own trade to the fresh ledger and its
\* own cost to its ticker).
C9_RolloverKeepsExposure == [][RolloverStep]_vars

\* A summary on a new day rolled a ledger that held trades, with exposure
\* open.
C9_Witness ==
    /\ lastOp.name = "get_daily_summary"
    /\ lastOp.rolled
    /\ lastOp.prior_trades > 0
    /\ daily_pnl.trades_count = 0
    /\ daily_pnl.date = today
    /\ current_exposure(open_positions) > 0

\* C10: validate_trade rejects exactly when today's P&L <= -max_daily_loss,
\* or confidence < min_confidence, or expected value < min_ev, or
\* balance <= 0, or total exposure >= balance * max_portfolio_exposure_pct
\* / 100; otherwise it approves.
C10_RejectsExactlyWhen ==
    lastOp.name = "validate_trade" =>
        (lastOp.ret.valid = FALSE <=>
            \/ daily_pnl.realized_pnl <= -max_daily_loss
            \/ lastOp.signal.confidence < lastOp.min_confidence
            \/ lastOp.signal.expected_value < lastOp.min_ev
            \/ lastOp.balance <= 0
            \/ current_exposure(open_positions) * 100
                 >= lastOp.balance * max_portfolio_exposure_pct)

\* A signal that passes every other test is rejected with the exposure
\* exactly at the ceiling.
C10_Witness ==
    /\ lastOp.name = "validate_trade"
    /\ lastOp.ret.valid = FALSE
    /\ lastOp.ret.reason = "Portfolio exposure limit reached"
    /\ lastOp.balance > 0
    /\ current_exposure(open_positions) * 100
         = lastOp.balance * max_portfolio_exposure_pct

\* ----------------------------------------------------- claims C11 - C16
\* C11, as stated: validate_trade rejects with a reason containing
\* 'Confidence' whenever confidence < min_confidence, and with a reason
\* containing 'Expected value' whenever expected value < min_ev, whatever
\* the other signal fields, the balance and the ledger state.
C11_ReasonWhateverTheRest ==
    lastOp.name = "validate_trade" =>
        /\ lastOp.signal.confidence < lastOp.min_confidence =>
              /\ lastOp.ret.valid = FALSE
              /\ "Confidence" \in Phrases(lastOp.ret.reason)
        /\ lastOp.signal.expected_value < lastOp.min_ev =>
              /\ lastOp.ret.valid = FALSE
              /\ "Expected value" \in Phrases(lastOp.ret.reason)

\* C11, amended: validate_trade rejects whenever confidence <
\* min_confidence or expected value < min_ev; the reason contains
\* 'Confidence' when confidence < min_confidence and today's P&L is above
\* -max_daily_loss, and contains 'Expected value' when expected value <
\* min_ev, confidence >= min_confidence and today's P&L is above
\* -max_daily_loss, whatever the balance and the exposure.
C11_ReasonByPrecedence ==
    lastOp.name = "validate_trade" =>
        /\ (\/ lastOp.signal.confidence < lastOp.min_confidence
            \/ lastOp.signal.expected_value < lastOp.min_ev)
              => lastOp.ret.valid = FALSE
        /\ (/\ lastOp.signal.confidence < lastOp.min_confidence
            /\ total_pnl(daily_pnl) > -max_daily_loss)
              => "Confidence" \in Phrases(lastOp.ret.reason)
        /\ (/\ lastOp.signal.expected_value < lastOp.min_ev
            /\ lastOp.signal.confidence >= lastOp.min_confidence
            /\ total_pnl(daily_pnl) > -max_daily_loss)
              => "Expected value" \in Phrases(lastOp.ret.reason)

\* A signal low in both confidence and expected value is rejected for its
\* confidence, with no balance and with exposure open.
C11_Witness ==
    /\ lastOp.name = "validate_trade"
    /\ lastOp.signal.confidence < lastOp.min_confidence
    /\ lastOp.signal.expected_value < lastOp.min_ev
    /\ lastOp.balance = 0
    /\ current_exposure(open_positions) > 0
    /\ lastOp.ret = [valid |-> FALSE, reason |-> "Confidence too low"]

\* The sizing call's cost per contract in cents, balance and estimated
\* probability in hundredths, and what it returned.
SizeCents == args.cost_per_contract_cents
SizeBalance == args.balance
SizeProb == args.signal.estimated_probability
SizeReturned == lastOp.ret

\* The exposure headroom max(0, balance * pct / 100 - exposure) and the
\* remaining daily-loss budget max(0, max_daily_loss - max(0, -P&L)), in
\* cents.
ExposureRoomCents ==
    Max(0, SizeBalance * max_portfolio_exposure_pct
           - 100 * current_exposure(open_positions))
DailyRoomCents == 100 * Max(0, max_daily_loss - Max(0, -total_pnl(daily_pnl)))

\* n contracts cost no more than the Kelly amount balance * kelly(p, b), b
\* = (100 - c) / c: the Kelly fraction is (p - c/100) / (1 - c/100) times
\* kelly_fraction when 0 < p < 1 and p > c/100, and 0 otherwise.
KellyFits(n) ==
    IF SizeProb <= 0 \/ SizeProb >= 100 \/ SizeProb <= SizeCents
    THEN n <= 0
    ELSE n * SizeCents * (100 - SizeCents) * kelly_fraction.d
            <= 100 * SizeBalance * (SizeProb - SizeCents) * kelly_fraction.n

\* n contracts are within each of the five bounds.
Fits(n) ==
    /\ KellyFits(n)
    /\ n <= max_position_size
    /\ n * SizeCents <= 100 * max_trade_cost
    /\ n * SizeCents <= ExposureRoomCents
    /\ n * SizeCents <= DailyRoomCents

DerivedPrice ==
    LET sp == args.signal.suggested_price
    IN IF sp # None /\ sp[1] # 0 THEN sp[1]
       ELSE IF args.signal.side = "yes"
       THEN args.signal.market_probability \div 10
       ELSE (1000 - args.signal.market_probability) \div 10

\* The price field of an order on the order's own side.
OwnPrice(order) ==
    IF order.side = "yes" THEN order.yes_price ELSE order.no_price

\* C13: every order build_order returns has an integer price strictly
\* between 0 and 100, a count > 0, type limit, post-only set and
\* time-in-force gtc; it returns no order when the derived price is <= 0 or
\* >= 100 or when calculate_position_size returns <= 0.
C13_OrdersAreWellFormed ==
    lastOp.name = "build_order" =>
        /\ lastOp.ret # None =>
             /\ OwnPrice(lastOp.ret[1]) = Some(DerivedPrice)
             /\ DerivedPrice \in 1..99
             /\ lastOp.ret[1].count > 0
             /\ lastOp.ret[1].order_type = "limit"
             /\ lastOp.ret[1].post_only = TRUE
             /\ lastOp.ret[1].time_in_force = "gtc"
        /\ (DerivedPrice <= 0 \/ DerivedPrice >= 100) => lastOp.ret = None
        /\ (/\ DerivedPrice \in 1..99
            /\ calculate_position_size(daily_pnl, open_positions,
                   args.signal, args.balance, DerivedPrice) <= 0)
             => lastOp.ret = None

\* A NO order priced from the market probability, the suggested price
\* being 0.
C13_Witness ==
    /\ lastOp.name = "build_order"
    /\ args.signal.side = "no"
    /\ args.signal.suggested_price = Some(0)
    /\ lastOp.ret # None
    /\ lastOp.ret[1].no_price = Some(50)
    /\ lastOp.ret[1].count = 50

\* C14: every order build_order returns, and the API payload made from it,
\* carries exactly one price field, the one matching its side: yes_price
\* for a YES order, no_price for a NO order.
C14_OnePriceField ==
    /\ (lastOp.name = "build_order" /\ lastOp.ret # None) =>
          LET order == lastOp.ret[1]
          IN /\ order.side \in {"yes", "no"}
             /\ order.side = "yes" =>
                   order.yes_price # None /\ order.no_price = None
             /\ order.side = "no" =>
                   order.no_price # None /\ order.yes_price = None
    /\ lastOp.name = "to_api_payload" =>
          LET order == lastOp.ret.order
              payload == lastOp.ret.payload
              own == IF payload["side"] = "yes" THEN "yes_price"
                     ELSE "no_price"
          IN /\ payload["side"] = order.side
             /\ DOMAIN payload \cap {"yes_price", "no_price"} = {own}
             /\ Some(payload[own]) = OwnPrice(order)

\* The payload of a NO order that create_order gave an id.
C14_Witness ==
    /\ lastOp.name = "to_api_payload"
    /\ lastOp.ret.order.side = "no"
    /\ lastOp.ret.payload["no_price"] = 50
    /\ "yes_price" \notin DOMAIN lastOp.ret.payload
    /\ "client_order_id" \in DOMAIN lastOp.ret.payload

\* C16: kelly_criterion(p, b) is never negative; it is 0 when p <= 0, p >=
\* 1 or b <= 0, and when p <= 1/(1+b); otherwise it is ((p*b - (1-p)) / b)
\* times kelly_fraction; kelly_criterion(0.6, 1.0) with fraction 0.5 is
\* 0.10.  With p = pn/pd and b = bn/bd the comparisons are cross-multiplied.
C16_KellyFraction ==
    lastOp.name = "kelly_criterion" =>
        LET pn == args.probability.n
            pd == args.probability.d
            bn == args.odds_decimal.n
            bd == args.odds_decimal.d
            r == lastOp.ret
        IN /\ r.d > 0
           /\ r.n >= 0
           /\ IF pn <= 0 \/ pn >= pd \/ bn <= 0 THEN r.n = 0
              ELSE IF pn * (bd + bn) <= pd * bd THEN r.n = 0
              ELSE r.n * kelly_fraction.d * pd * bn
                     = r.d * kelly_fraction.n * (pn * bn - (pd - pn) * bd)
           /\ (pn = 3 /\ pd = 5 /\ bn = 1 /\ bd = 1) => (r.n = 1 /\ r.d = 10)

\* kelly_criterion(0.6, 1.0) returned 0.10.
C16_Witness ==
    /\ lastOp.name = "kelly_criterion"
    /\ args.probability = Frac(3, 5)
    /\ args.odds_decimal = Whole(1)
    /\ lastOp.ret = Frac(1, 10)

\* C15: after any sequence of record_trade calls within one UTC day the
\* ledger's trade count is the number of calls, its realized P&L the sum
\* of their pnl, its wins and losses the numbers of calls with pnl > 0 and
\* pnl < 0, and each ticker's exposure its exposure before the sequence
\* plus the sum of the costs recorded for it (the sequence for the
\* exposure starting anew after an update_position).
C15_LedgerMatchesCalls ==
    LET logged == 1..Len(day_log)
    IN /\ daily_pnl.trades_count = Len(day_log)
       /\ daily_pnl.realized_pnl
            = SumOver([i \in logged |-> day_log[i].pnl], logged)
       /\ daily_pnl.wins
            = Cardinality({i \in 1..Len(day_log) : day_log[i].pnl > 0})
       /\ daily_pnl.losses
            = Cardinality({i \in 1..Len(day_log) : day_log[i].pnl < 0})
       /\ \A t \in Tickers :
            Get(open_positions, t)
              = Get(seq_base, t)
                + SumOver([i \in seq_from + 1..Len(day_log) |->
                              IF day_log[i].ticker = t
                              THEN day_log[i].cost ELSE 0],
                          seq_from + 1..Len(day_log))

\* Three trades in one day, a win, a loss and a trade of no P&L, two of
\* them on a ticker that had exposure before.
C15_Witness ==
    /\ Len(day_log) = 3
    /\ seq_from = 0
    /\ {day_log[i].pnl : i \in 1..3} = {-25, 0, 10}
    /\ Get(seq_base, "T1") = 20
    /\ Get(open_positions, "T1") = 40
    /\ daily_pnl.wins = 1
    /\ daily_pnl.losses = 1


\* The calls the current cycle has made, in order: the status query is its
\* first, the balance fetch its second, the run of strategy i its (2+i)th.
CallsMade == {cycle_log[i].call : i \in 1..Len(cycle_log)}
StatusValue ==
    /\ cycle_log # <<>>
    /\ cycle_log[1].call = "get_exchange_status"
    /\ cycle_log[1].outcome.kind = "value"
RunOf(i) == cycle_log[2 + i].outcome

\* C17: when the exchange status reports the exchange inactive, the cycle
\* returns 0 and does nothing else: the status query is the only call of
\* the cycle (no balance fetch, no strategy run, no RiskManager call, no
\* order submission) and the ledger is as the cycle found it.
C17_InactiveSkipsCycle ==
    (StatusValue /\ ~cycle_log[1].outcome.exchange_active) =>
        /\ Len(cycle_log) = 1
        /\ mpc = "returned"
        /\ cycle_result = Returned(0)
        /\ trades_executed = 0
        /\ all_signals = <<>>

\* A cycle has returned 0 on an inactive exchange whose trading flag is on,
\* with a caller that asked for live trading.
C17_Witness ==
    /\ StatusValue
    /\ ~cycle_log[1].outcome.exchange_active
    /\ cycle_log[1].outcome.trading_active
    /\ ~config.scan_only /\ ~config.dry_run
    /\ mpc = "returned"
    /\ cycle_result = Returned(0)

\* C18: when the exchange is active but trading is paused, the cycle is in
\* scan-only mode and validates, sizes, submits and records nothing; the
\* forced mode does not carry over: a cycle whose status reports trading
\* active is in the mode the caller requested (until a failed balance fetch
\* of its own forces scan-only).
C18_PausedScansThisCycleOnly ==
    /\ Paused(cycle_log) =>
          /\ scan_only
          /\ CallsMade \cap {"validate_trade", "build_order", "dry_run",
                             "create_order", "record_trade"} = {}
    /\ (/\ StatusValue
        /\ cycle_log[1].outcome.exchange_active
        /\ cycle_log[1].outcome.trading_active
        /\ Len(cycle_log) >= 2 => cycle_log[2].outcome.kind = "value")
          => scan_only = config.scan_only

\* After a cycle that found trading paused, a later cycle whose status
\* reports trading active has submitted an order.
C18_Witness ==
    /\ paused_before
    /\ StatusValue
    /\ cycle_log[1].outcome.trading_active
    /\ ~scan_only
    /\ "create_order" \in CallsMade

\* C19: when the balance fetch of a cycle fails, with an API error or with
\* the connection/timeout error left after the retries, the cycle does not
\* abort: it is in scan-only mode with balance 0 and submits no order.
C19_BalanceFailureNeverAborts ==
    (/\ Len(cycle_log) >= 2
     /\ cycle_log[2].call = "get_balance"
     /\ cycle_log[2].outcome.kind \in Failures) =>
        /\ mpc # "raised"
        /\ cycle_result # Raised
        /\ scan_only
        /\ cycle_balance = 0
        /\ "create_order" \notin CallsMade

\* The signals strategy i's run produced: none when scan() raised, else
\* those of the markets whose analysis returned one.
Produced(i) ==
    IF RunOf(i).scan = "raise" THEN {}
    ELSE {RunOf(i).analysis[m].signal[1] :
            m \in {k \in Range(MarketsOf(Strategies[i])) :
                      RunOf(i).analysis[k].kind = "signal"}}
Collected == UNION {Produced(i) : i \in 1..(strat - 1)}

\* C20: a strategy whose run raises does not stop the others, and an
\* exception in the analysis of one market does not discard the signals of
\* the strategy's other markets: the cycle runs the strategies one after
\* the other, all_signals holds exactly the signals produced so far, no
\* cycle reaches the signal loop or returns from it before every strategy
\* has run, and a cycle that returns has processed every signal.
C20_FailuresAreIsolated ==
    /\ \A i \in 1..(strat - 1) :
          /\ cycle_log[2 + i].call = "strategy.run"
          /\ cycle_log[2 + i].arg = Strategies[i]
    /\ Range(all_signals) = Collected
    /\ Len(all_signals) = Cardinality(Collected)
    /\ (mpc = "signals" \/ (mpc = "returned" /\ Len(cycle_log) >= 2)) =>
          strat = Len(Strategies) + 1
    /\ mpc = "signals" => sig_i - 1 =
          Cardinality({i \in 1..Len(cycle_log) :
                          cycle_log[i].call \in {"scan_only", "validate_trade"}})
    /\ (mpc = "returned" /\ Len(cycle_log) >= 2) =>
          sig_i = Len(all_signals) + 1

\* The first strategy's scan raised, the analysis of the second's first
\* market raised, its second market gave a signal, and the cycle processed
\* that signal and returned.
C20_Witness ==
    /\ mpc = "returned"
    /\ strat = Len(Strategies) + 1
    /\ RunOf(1).scan = "raise"
    /\ RunOf(2).scan = "ok"
    /\ RunOf(2).analysis["T2"].kind = "raise"
    /\ RunOf(2).analysis["T3"].kind = "signal"
    /\ Len(all_signals) = 1
    /\ sig_i = 2

\* The signals the current cycle has taken up so far, in order: each is
\* either counted in scan-only mode or passed to validate_trade.
Processing ==
    SelectSeq(cycle_log,
              LAMBDA e : e.call \in {"scan_only", "validate_trade"})

\* C21: within a cycle the combined signals are processed in non-increasing
\* order of expected value: the signals taken up so far are the first ones
\* of all_signals, and none of them was taken up before one with a strictly
\* higher expected value, whether that one is already processed or still
\* waiting.
C21_ProcessedByExpectedValue ==
    \E done \in {Processing} :
        /\ Len(done) > 0 =>
              /\ Len(done) <= Len(all_signals)
              /\ \A i \in 1..Len(done) : done[i].arg = all_signals[i]
        /\ \A i \in 1..Len(done) : \A j \in i..Len(all_signals) :
              done[i].arg.expected_value >= all_signals[j].expected_value

\* The first strategy gave a signal of expected value 0.05, the second one
\* of 0.10, and the cycle has processed the second strategy's first.
C21_Witness ==
    \E done \in {Processing} :
        /\ mpc = "returned"
        /\ Len(done) = 2
        /\ done[1].arg.ticker = "T2"
        /\ done[2].arg.ticker = "T1"
        /\ Produced(1) # {}
        /\ done[1].arg.expected_value > done[2].arg.expected_value

RiskAndOrderCalls ==
    {"validate_trade", "build_order", "dry_run", "create_order",
     "record_trade"}

\* C22: in scan-only mode each signal is counted as one trade without a call
\* of validate_trade or build_order and without an order submission: a
\* scan-only cycle that returns has made none of these calls and returns the
\* number of its signals, each step of its signal loop counts one signal and
\* logs nothing else, and no step of it changes the ledger or the exposure
\* map.
C22_ScanOnlyCountsAndLeaves ==
    /\ [](scan_only /\ mpc = "returned" =>
             /\ CallsMade \cap RiskAndOrderCalls = {}
             /\ cycle_result = Returned(Len(all_signals)))
    /\ [][/\ (scan_only /\ mpc \in {"balance", "strategies", "signals"}) =>
                UNCHANGED ledgerVars
          /\ (scan_only /\ mpc = "signals" /\ sig_i' # sig_i) =>
                /\ trades_executed' = trades_executed + 1
                /\ cycle_log' = Append(cycle_log,
                                       Event("scan_only", all_signals[sig_i], ""))
                /\ mpc' = "signals"]_vars

\* A cycle forced into scan-only mode has returned 2 for its two signals,
\* with a trade of an earlier cycle in the ledger and in the exposure map.
C22_Witness ==
    /\ scan_only
    /\ ~config.scan_only
    /\ mpc = "returned"
    /\ cycle_result = Returned(2)
    /\ Len(all_signals) = 2
    /\ recorded > 0
    /\ open_positions # NoPositions

\* C23: when the submission of an approved, sized order fails, no trade is
\* recorded, the trade count is not incremented and the cycle goes on to
\* the next signal: after a create_order that failed, with an API error or
\* with the connection/timeout error left after the retries, the cycle has
\* not aborted, the next call is not record_trade, and the count is the
\* number of signals counted by the other branches.
C23_FailedSubmissionNeverAborts ==
    /\ \A i \in 1..Len(cycle_log) :
          (/\ cycle_log[i].call = "create_order"
           /\ cycle_log[i].outcome \in Failures) =>
              /\ i = Len(cycle_log) => mpc # "raised"
              /\ i < Len(cycle_log) => cycle_log[i + 1].call # "record_trade"
    /\ trades_executed =
          Cardinality({i \in 1..Len(cycle_log) :
                          cycle_log[i].call \in {"scan_only", "dry_run",
                                                 "record_trade"}})

\* The balance the last successful get_balance of the cycle returned, 0
\* without one.
RECURSIVE LastBalance(_)
LastBalance(log) ==
    IF log = <<>> THEN 0
    ELSE IF /\ log[Len(log)].call = "get_balance"
            /\ log[Len(log)].outcome.kind = "value"
    THEN log[Len(log)].outcome.balance
    ELSE LastBalance(SubSeq(log, 1, Len(log) - 1))

\* The events a step has added to the log of the cycle.
NewEvents == SubSeq(cycle_log', Len(cycle_log) + 1, Len(cycle_log'))

C25_CycleErrorsAreCaught ==
    /\ [](cycle_result = Raised =>
             /\ mpc \in {"raised", "sleep", "top", "sleep60", "final", "exit"}
             /\ mpc \in {"final", "exit"} => config.once \/ ~running)
    /\ [][/\ (mpc = "raised" /\ mpc' # mpc) =>
                /\ mpc' = IF config.once THEN "final" ELSE "sleep"
                /\ sleep_left' = ScanInterval
                /\ UNCHANGED <<ledgerVars, cycle, running>>
          /\ (cycle_result = Raised /\ mpc = "sleep" /\ mpc' # mpc) =>
                mpc' = "top"
          /\ (cycle_result = Raised /\ mpc = "top" /\ mpc' # mpc) =>
                IF running
                THEN cycle' = cycle + 1 /\ mpc' \in {"status", "sleep60"}
                ELSE mpc' = "final"]_vars

\* After a cycle that raised, the loop is back at its top, still running,
\* about to start the next cycle.
C25_Witness ==
    /\ cycle_result = Raised
    /\ mpc = "top"
    /\ running
    /\ ~config.once
    /\ cycle >= 1
    /\ cycle < MaxCycles

\* C26: the stop flag is checked at the top of each cycle and polled at
\* most 1 second apart whenever the main loop sleeps between cycles: once
\* it is set no new cycle starts, and a step of a sleeping loop takes at
\* most one more second of sleep and leaves the sleep for the top of the
\* loop.
C26_StopIsSeenWithinASecond ==
    [][/\ (~running /\ mpc = "top") => mpc' \in {"top", "final"}
       /\ ~running => cycle' = cycle
       /\ (~running /\ mpc \in {"sleep", "sleep60"}) =>
             /\ sleep_left - sleep_left' <= 1
             /\ mpc' \in {mpc, "top"}]_vars

\* The items of the pages the requests made so far were answered with, in
\* the order of the requests.
RECURSIVE ItemsReceived(_)
ItemsReceived(cursors) ==
    IF cursors = <<>> THEN <<>>
    ELSE ItemsReceived(SubSeq(cursors, 1, Len(cursors) - 1))
            \o pages[cursors[Len(cursors)]].items

\* C27: a fetch-all operation requests its first page without a cursor and
\* every further page with the cursor the page before returned, goes on
\* only while that cursor is not empty, and returns after the page with
\* the empty cursor, making no request after it; what it has accumulated,
\* and returns, is the items of the pages in the order received, the empty
\* list when the first page has no items and no cursor.
C27_FetchAllFollowsCursors ==
    /\ sent_cursors # <<>> => sent_cursors[1] = None
    /\ \A i \in 2..Len(sent_cursors) :
          /\ sent_cursors[i] = pages[sent_cursors[i - 1]].cursor
          /\ sent_cursors[i] # None
    /\ all_items = ItemsReceived(sent_cursors)
    /\ fa_pc = "loop" /\ sent_cursors # <<>> =>
          /\ cursor = pages[sent_cursors[Len(sent_cursors)]].cursor
          /\ cursor # None
    /\ fa_pc = "returned" =>
          /\ sent_cursors # <<>>
          /\ pages[sent_cursors[Len(sent_cursors)]].cursor = None
          /\ pages[None] = [items |-> <<>>, cursor |-> None] =>
                all_items = <<>> /\ Len(sent_cursors) = 1

\* get_all_positions has returned the items of three pages, the second of
\* them empty, in the order received.
C27_Witness ==
    /\ fa_pc = "returned"
    /\ fa_op = "get_all_positions"
    /\ Len(sent_cursors) = 3
    /\ pages[sent_cursors[1]].items = <<"a", "b">>
    /\ pages[sent_cursors[2]].items = <<>>
    /\ pages[sent_cursors[3]].items = <<"a">>
    /\ all_items = <<"a", "b", "a">>

C29_AcquireIsIndivisible ==
    /\ tokens[SharedBucket] >= 0
    /\ acquired[SharedBucket] * Token
         <= Capacity(SharedBucket) + clock * max_per_second(SharedBucket)

\* The RiskManager methods that begin with _reset_daily_if_needed.
LedgerAccesses ==
    {"validate_trade", "calculate_position_size", "record_trade",
     "get_daily_summary"}

\* One step of the ledger: rolled at the first access on a new date, kept
\* by every later access on that date, untouched by anything else.
RolloverOnceStep ==
    LET access == today' = today /\ lastOp'.name \in LedgerAccesses
        records == access /\ lastOp'.name = "record_trade"
        added == IF records THEN 1 ELSE 0
        gained == IF records THEN lastOp'.pnl ELSE 0
    IN /\ (access /\ daily_pnl.date # today) =>
            /\ lastOp'.rolled
            /\ daily_pnl'.date = today
            /\ daily_pnl'.trades_count = added
            /\ daily_pnl'.realized_pnl = gained
            /\ trades_today' = added
       /\ (access /\ daily_pnl.date = today) =>
            /\ ~lastOp'.rolled
            /\ daily_pnl'.date = daily_pnl.date
            /\ daily_pnl'.trades_count = daily_pnl.trades_count + added
            /\ daily_pnl'.realized_pnl = daily_pnl.realized_pnl + gained
            /\ trades_today' = trades_today + added
       /\ ~access =>
            /\ daily_pnl' = daily_pnl
            /\ trades_today' = trades_today

\* C30: the ledger is reset exactly once per change of the UTC date, at the
\* first access (validate_trade, calculate_position_size, record_trade or
\* get_daily_summary) made on the new date; a later access on the same date
\* never resets it, so a trade recorded after the rollover stays in the
\* ledger until the date changes again.
C30_ResetOncePerDate ==
    /\ [](daily_pnl.date <= today)
    /\ [][RolloverOnceStep]_vars

\* On a later day, a validation finds the ledger already rolled and holding
\* the trades recorded since the rollover.
C30_Witness ==
    /\ today > 0
    /\ daily_pnl.date = today
    /\ daily_pnl.trades_count >= 2
    /\ lastOp.name = "validate_trade"
    /\ ~lastOp.rolled

\* One validate_trade call, seen from the ledger it finds.
DailyLossStep ==
    (today' = today /\ lastOp'.name = "validate_trade") =>
        /\ (daily_pnl.date = today
              /\ daily_pnl.realized_pnl <= -max_daily_loss) =>
                /\ lastOp'.ret.valid = FALSE
                /\ lastOp'.ret.reason = "Daily loss limit reached"
        /\ daily_pnl.date # today =>
                /\ lastOp'.rolled
                /\ daily_pnl' = DailyPnL(today)
                /\ lastOp'.ret.reason # "Daily loss limit reached"

\* C31: while the realized P&L recorded for the current UTC day is at or
\* below -max_daily_loss, every validate_trade call is rejected for the
\* daily loss limit, whatever the signal; once the UTC date has changed, the
\* validate_trade call that rolls the ledger is not rejected for the daily
\* loss limit.
C31_DailyLossPausesUntilRollover == [][DailyLossStep]_vars

\* A signal that passes every other test is rejected on a day whose losses
\* reached the limit.
C31_Witness ==
    /\ lastOp.name = "validate_trade"
    /\ daily_pnl.date = today
    /\ daily_pnl.realized_pnl <= -max_daily_loss
    /\ lastOp.signal.confidence >= lastOp.min_confidence
    /\ lastOp.signal.expected_value >= lastOp.min_ev
    /\ lastOp.balance > 0
    /\ current_exposure(open_positions) = 0
    /\ lastOp.ret.reason = "Daily loss limit reached"

\* The bucket the claim assigns to the call being made.
OwnBucket(m) ==
    IF m \in {"POST", "PUT", "DELETE", "PATCH"} THEN "write" ELSE "read"

\* One step of a _request call, seen from the two buckets.
OneTokenStep ==
    LET own == OwnBucket(method') IN
    /\ \A b \in Buckets \ {own} :
         /\ tokens'[b] = tokens[b]
         /\ acquired'[b] = acquired[b]
         /\ elapsed'[b] >= elapsed[b]
    /\ acquired'[own] \in {acquired[own], acquired[own] + 1}
    /\ acquired'[own] = acquired[own] + 1 <=>
         (pc = "acquire" /\ pc' = "headers")
    /\ (pc = "acquire" /\ pc' = "headers") =>
         /\ sent = <<>>
         /\ \E before \in tokens[own]..Capacity(own) :
              tokens'[own] = before - Token
    /\ pc # "acquire" => (tokens' = tokens /\ acquired' = acquired)

\* C32: every _request call takes exactly one token from exactly one bucket,
\* the write bucket for POST, PUT, DELETE and PATCH and the read bucket for
\* any other method, however many HTTP attempts it makes, and leaves the
\* other bucket's token count and last-refill instant as they were.
C32_OneTokenFromOneBucket ==
    /\ [](acquired["read"] + acquired["write"]
            = calls - (IF pc \in {"acquire", "sleeping"} THEN 1 ELSE 0))
    /\ [][OneTokenStep]_vars

\* A POST that made three attempts took one write token and left the read
\* bucket full.
C32_Witness ==
    /\ pc = "done"
    /\ method = "POST"
    /\ Len(sent) = 3
    /\ calls = 1
    /\ acquired = [b \in Buckets |-> IF b = "write" THEN 1 ELSE 0]
    /\ tokens["read"] = Capacity("read")
    /\ tokens["write"] = Capacity("write") - Token

\* The events of the current cycle that stand for a trade: a signal counted
\* in scan-only mode, an order simulated in dry-run mode, an order the
\* exchange accepted.
Trades ==
    {i \in 1..Len(cycle_log) :
        \/ cycle_log[i].call \in {"scan_only", "dry_run"}
        \/ cycle_log[i].call = "create_order" /\ cycle_log[i].outcome = "value"}

\* What may follow event i in the log, by what event i is: after a
\* rejection, an order of None or a failed submission the loop goes to the
\* next signal, if the cycle goes on at all.
NextSignalOnly(i) ==
    i < Len(cycle_log) => cycle_log[i + 1].call = "validate_trade"

\* C33: the value a cycle returns is the number of its signals that were
\* counted in scan-only mode, simulated in dry-run mode or submitted with
\* success in live mode; a signal that validate_trade rejects, for which
\* build_order returns None, or whose submission fails adds nothing to the
\* count, and no order is submitted for a signal that was rejected or got no
\* order.
C33_ReturnCountsTrades ==
    /\ mpc = "signals" => trades_executed = Cardinality(Trades)
    /\ (mpc = "returned" /\ cycle_result.kind = "returned") =>
          cycle_result.value = Cardinality(Trades)
    /\ \A i \in 1..Len(cycle_log) :
          /\ (cycle_log[i].call = "validate_trade"
                /\ ~cycle_log[i].outcome.valid) => NextSignalOnly(i)
          /\ (cycle_log[i].call = "build_order"
                /\ cycle_log[i].outcome = None) => NextSignalOnly(i)
          /\ (cycle_log[i].call = "create_order"
                /\ cycle_log[i].outcome = "KalshiAPIError") =>
                NextSignalOnly(i)
          /\ cycle_log[i].call = "create_order" =>
                /\ cycle_log[i - 1].call = "build_order"
                /\ cycle_log[i - 1].outcome = Some(cycle_log[i].arg)
                /\ cycle_log[i - 2].call = "validate_trade"
                /\ cycle_log[i - 2].outcome.valid

\* A live cycle returned 1: one order was accepted, another submission
\* failed.
C33_Witness ==
    /\ mpc = "returned"
    /\ ~scan_only
    /\ ~config.dry_run
    /\ cycle_result = Returned(1)
    /\ \E i \in 1..Len(cycle_log) :
          /\ cycle_log[i].call = "create_order"
          /\ cycle_log[i].outcome = "KalshiAPIError"
    /\ \E i \in 1..Len(cycle_log) :
          /\ cycle_log[i].call = "create_order"
          /\ cycle_log[i].outcome = "value"

\* The RiskManager methods that only read: a day rollover aside, they leave
\* the ledger as it is.
Readers ==
    {"validate_trade", "calculate_position_size", "build_order",
     "get_daily_summary"}

\* One step, seen from the ledger and the exposure map.
RecordingOnlyStep ==
    /\ open_positions' # open_positions =>
          /\ today' = today
          /\ lastOp'.name \in {"record_trade", "update_position"}
    /\ lastOp'.name # "record_trade" => trades_today' <= trades_today
    /\ daily_pnl' # daily_pnl =>
          /\ today' = today
          /\ lastOp'.name \in Readers \cup {"record_trade"}
          /\ lastOp'.name \in Readers =>
                /\ daily_pnl.date # today
                /\ daily_pnl' = DailyPnL(today)

\* C34: the ledger and the exposure map change only through record_trade and
\* update_position: validate_trade, calculate_position_size, build_order and
\* get_daily_summary leave the exposure map as it is and change the ledger
\* only by a day rollover.
C34_OnlyRecordingMutates == [][RecordingOnlyStep]_vars

\* A build_order call on a new day returned an order, rolled a ledger that
\* held trades and left the exposure standing.
C34_Witness ==
    /\ lastOp.name = "build_order"
    /\ lastOp.ret # None
    /\ lastOp.rolled
    /\ lastOp.prior_trades > 0
    /\ daily_pnl = DailyPnL(today)
    /\ Get(open_positions, "T1") > 0

\* The orchestrator's side of C34: a step of the main loop changes the
\* exposure map only where the cycle's log shows a record_trade call, and
\* the ledger only there or by a day rollover.
OrchestratorWritesThroughCalls ==
    [][ /\ open_positions' # open_positions =>
             /\ cycle_log' # cycle_log
             /\ \E i \in (Len(cycle_log) + 1)..Len(cycle_log') :
                   cycle_log'[i].call = "record_trade"
        /\ daily_pnl' # daily_pnl =>
             \/ daily_pnl.date # today /\ daily_pnl'.date = today
             \/ /\ cycle_log' # cycle_log
                /\ \E i \in (Len(cycle_log) + 1)..Len(cycle_log') :
                      cycle_log'[i].call = "record_trade" ]_vars

\* What a step of the signal loop does in dry-run mode, the ledger aside:
\* an approved signal with an order is logged as a dry run and counted, and
\* no order is submitted, no trade recorded and no balance fetched.
DryRunStepCounts ==
    (config.dry_run /\ ~scan_only /\ mpc = "signals" /\ sig_i' # sig_i) =>
        \E new \in {NewEvents} :
            /\ \A k \in 1..Len(new) :
                  new[k].call \notin {"create_order", "record_trade",
                                      "get_balance"}
            /\ new[1].call = "validate_trade"
            /\ IF /\ new[1].outcome.valid
                  /\ build_order(ResetDailyIfNeeded(daily_pnl, today),
                                 open_positions, all_signals[sig_i],
                                 cycle_balance) # None
               THEN /\ Len(new) = 3
                    /\ new[3].call = "dry_run"
                    /\ new[3].arg.count > 0
                    /\ trades_executed' = trades_executed + 1
               ELSE trades_executed' = trades_executed
            /\ cycle_balance' = cycle_balance
            /\ open_positions' = open_positions
            /\ recorded' = recorded
            /\ trades_today' = trades_today

\* Inside a dry-run cycle: from the status query to the return.
InDryRunCycle ==
    /\ config.dry_run
    /\ mpc \in {"status", "balance", "strategies", "signals"}

\* C35 as stated: in dry-run mode (and not scan-only) an approved signal
\* with a positive count is counted as a trade, no order is submitted,
\* record_trade is not called and the balance is not fetched again, and no
\* step of the cycle changes the ledger or the exposure map.
C35_DryRunLeavesLedger ==
    [][/\ DryRunStepCounts
       /\ InDryRunCycle => UNCHANGED ledgerVars]_vars

\* C35 amended: the same, but the ledger is as before only up to its date:
\* the first validate_trade of a new UTC date moves the ledger's date to
\* today; the counters of the ledger and the exposure map stay as they were.
C35_DryRunLeavesLedgerButDate ==
    [][/\ DryRunStepCounts
       /\ InDryRunCycle =>
             /\ UNCHANGED <<open_positions, trades_today, recorded>>
             /\ \/ daily_pnl' = daily_pnl
                \/ /\ mpc = "signals"
                   /\ daily_pnl.date # today
                   /\ daily_pnl' = [daily_pnl EXCEPT !.date = today]]_vars

\* A dry-run cycle on a later day counted a trade and returned: the ledger
\* carries the new date and nothing else, the exposure map is empty.
C35_Witness ==
    /\ config.dry_run
    /\ ~scan_only
    /\ mpc = "returned"
    /\ cycle_result.kind = "returned"
    /\ cycle_result.value >= 1
    /\ "dry_run" \in CallsMade
    /\ today > 0
    /\ daily_pnl = DailyPnL(today)
    /\ open_positions = NoPositions

\* C36: every record_trade call of the orchestrator passes a pnl of 0, so
\* over any sequence of cycles the ledger's realized P&L, win count and loss
\* count stay 0 and, max_daily_loss being positive, validate_trade never
\* rejects a signal for the daily loss limit.
C36_LedgerPnlStaysZero ==
    /\ max_daily_loss > 0
    /\ daily_pnl.realized_pnl = 0
    /\ daily_pnl.wins = 0
    /\ daily_pnl.losses = 0
    /\ \A i \in 1..Len(cycle_log) :
          /\ cycle_log[i].call = "record_trade" => cycle_log[i].arg.pnl = 0
          /\ cycle_log[i].call = "validate_trade" =>
                cycle_log[i].outcome.reason # "Daily loss limit reached"

\* In a later cycle of a live bot, with two trades in the day's ledger, a
\* signal was validated.
C36_Witness ==
    /\ ~config.dry_run
    /\ cycle >= 2
    /\ daily_pnl.trades_count >= 2
    /\ daily_pnl.realized_pnl = 0
    /\ Len(cycle_log) >= 1
    /\ cycle_log[Len(cycle_log)].call = "validate_trade"

\* The tickers of the markets and of the exposure map.
TrackedTickers == DOMAIN open_positions \cup DOMAIN open_positions'

\* C37: over any sequence of cycles of the main loop no ticker's tracked
\* exposure ever decreases: the orchestrator adds to it through record_trade
\* alone, never calls update_position, and a day rollover leaves it as it
\* is.
C37_ExposureNeverDecreases ==
    /\ []("update_position" \notin CallsMade)
    /\ [][/\ \A t \in TrackedTickers :
                Get(open_positions', t) >= Get(open_positions, t)
          /\ open_positions' # open_positions =>
                \E k \in (Len(cycle_log) + 1)..Len(cycle_log') :
                    /\ cycle_log'[k].call = "record_trade"
                    /\ cycle_log'[k].arg.cost > 0
          /\ daily_pnl'.date # daily_pnl.date =>
                \A t \in TrackedTickers :
                    Get(open_positions', t) >= Get(open_positions, t)]_vars

\* On a later day the ledger has been rolled and the exposure of the trades
\* of the day before still stands.
C37_Witness ==
    /\ today > 0
    /\ daily_pnl.date = today
    /\ daily_pnl.trades_count = 0
    /\ recorded >= 2
    /\ current_exposure(open_positions) > 0

\* The uuids handed out so far.
IssuedIds == {UuidNames[k] : k \in 1..issued}

\* C38: create_order gives an order that has no client order id a fresh
\* one before the first HTTP attempt, and every attempt of the call, first
\* or retry, sends the same payload with that client order id.
C38_OneIdForAllAttempts ==
    /\ [](pc # "idle" =>
            /\ the_order # None
            /\ the_order[1].client_order_id # ""
            /\ json_body # None
            /\ "client_order_id" \in DOMAIN json_body[1]
            /\ json_body[1].client_order_id = the_order[1].client_order_id
            /\ \A i \in 1..Len(sent) : sent[i].json = json_body)
    /\ [][/\ calls' = calls =>
                UNCHANGED <<the_order, json_body, issued>>
          /\ calls' # calls =>
                /\ sent' = <<>>
                /\ \/ /\ issued' = issued
                      /\ the_order'[1].client_order_id \in
                            {"given"} \cup IssuedIds
                   \/ /\ issued' = issued + 1
                      /\ the_order'[1].client_order_id \notin
                            {"", "given"} \cup IssuedIds
                      /\ the_order'[1].client_order_id \in
                            {UuidNames[issued']}]_vars

\* The second order of a caller, passed without an id, went out three times
\* with the second uuid.
C38_Witness ==
    /\ pc = "done"
    /\ calls = 2
    /\ issued = 2
    /\ Len(sent) = 3
    /\ \A i \in 1..3 : sent[i].json[1].client_order_id = "uuid-2"

\* The status query of the current cycle failed with an API error.
StatusApiError ==
    /\ cycle_log # <<>>
    /\ cycle_log[1].call = "get_exchange_status"
    /\ cycle_log[1].outcome.kind = "KalshiAPIError"

\* The balance fetch of the current cycle failed with an API error, which
\* is what forces scan-only mode after a failed status query.
BalanceApiError ==
    /\ Len(cycle_log) >= 2
    /\ cycle_log[2].outcome.kind = "KalshiAPIError"

\* C39: when the exchange-status query fails with an API error the cycle
\* neither skips nor switches to scan-only: it goes on to the balance fetch
\* and, from there, to the strategies and the signals in the mode the caller
\* asked for, so that orders can still be submitted in that cycle.
C39_StatusErrorGoesOn ==
    StatusApiError =>
        /\ Len(cycle_log) = 1 => (mpc = "balance" /\ scan_only = config.scan_only)
        /\ Len(cycle_log) >= 2 => cycle_log[2].call = "get_balance"
        /\ (Len(cycle_log) >= 2 /\ cycle_log[2].outcome.kind = "value") =>
              /\ scan_only = config.scan_only
              /\ Len(cycle_log) = 2 => mpc = "strategies"
        /\ (mpc = "returned" /\ ~BalanceApiError) =>
              /\ sig_i = Len(all_signals) + 1
              /\ scan_only = config.scan_only

\* A live cycle whose status query failed with an API error submitted an
\* order, had it accepted, and returned 1.
C39_Witness ==
    /\ StatusApiError
    /\ ~config.scan_only
    /\ ~config.dry_run
    /\ ~scan_only
    /\ mpc = "returned"
    /\ cycle_result = Returned(1)
    /\ \E i \in 1..Len(cycle_log) :
          /\ cycle_log[i].call = "create_order"
          /\ cycle_log[i].outcome = "value"
    /\ "record_trade" \in CallsMade

====
